---- MODULE Spec2Model ----
(***************************************************************************)
(* Model of the Blueprint Drawing Engine (class BlueprintManager,          *)
(* src/blueprint.js) with the helpers of Utils it calls                    *)
(* (src/packages/core/src/recommendations/index.ts).                       *)
(*                                                                         *)
(* JavaScript objects have identity: the element collections are arrays    *)
(* of element objects, a history snapshot holds arrays of its own, the     *)
(* selection and the lock list hold references.  The model keeps a heap:   *)
(*   elems : sequence of element objects, an element reference is an index *)
(*   arrs  : sequence of arrays, an array is a sequence of element         *)
(*           references, an array reference is an index                    *)
(* Objects are never freed; a new object takes the next index.             *)
(* Coordinates are integers (world units).  A nullable field is <<>> for   *)
(* null and <<v>> for the value v.                                         *)
(***************************************************************************)
EXTENDS Integers, Sequences, FiniteSets, TLC

VARIABLES
    elems, arrs,                 \* the heap
    store,                       \* this.walls .. this.measurements: array references
    history, historyIndex,       \* this.history, this.historyIndex
    selectedElements,            \* this.selectedElements: element references
    lockedElements,              \* this.lockedElements: element references
    clipboard,                   \* this.clipboard: null or cloned element values
    currentTool,                 \* this.currentTool
    isDrawing, isPanning, spacebarPanning, isDragging, isSelectingRectangle,
    startPoint, currentPoint, selectionStart, dragStart, dragOffset, lastPanPoint,
    orthogonalMode,
    snapPointField,              \* the instance property this.snapPoint
    snapToGrid,                  \* this.snapToGrid
    zoom, panOffset,             \* this.zoom (a rational <<num, den>>), this.panOffset (x and y rationals)
    thrown,                      \* the last handler ended by a thrown exception
    nCommits,                    \* number of saveToHistory calls so far
    nUndoCalls,                  \* while onlyAddsThenUndos: the undo() calls so far
    onlyAddsThenUndos,           \* so far: element-adding createElement calls, then only undo() calls
    undoStack,                   \* store values before each effective undo of the current run of undos and redos
    redoExpected,                \* after an effective redo that answers an effective undo: the store value before that undo
    alignInfo,                   \* after an effective alignSelected: its alignment, the selection bounds it computed, how many elements it moved
    nViewOps,                    \* calls of the zoom operations so far
    detectInfo,                  \* after detectRooms: the walls it read and the rooms it returned
    gesture,                     \* since the last pointer-down: the store and history before it, and how the gesture ended (Escape, release)
    snapResult,                  \* the value returned by the last call of the snapPoint method
    calc                         \* the last call of a DrywallCalculator function: its name, arguments and result

heapVars    == <<elems, arrs, store>>
histVars    == <<history, historyIndex>>
selVars     == <<selectedElements, lockedElements, clipboard>>
modeVars    == <<isDrawing, isPanning, spacebarPanning, isDragging, isSelectingRectangle>>
pointVars   == <<startPoint, currentPoint, selectionStart, dragStart, dragOffset, lastPanPoint,
                 orthogonalMode>>
viewVars    == <<zoom, panOffset>>
snapVars    == <<snapPointField, snapToGrid, snapResult>>
ghostVars   == <<nCommits, nUndoCalls, onlyAddsThenUndos, undoStack, redoExpected, alignInfo, detectInfo,
                 nViewOps, gesture>>

managerVars == <<heapVars, histVars, selVars, currentTool, modeVars, pointVars, viewVars, snapVars,
                 thrown, ghostVars>>

vars == <<managerVars, calc>>

-----------------------------------------------------------------------------
(* Program constants *)

maxHistorySize == 50
scale == 20
gridSize == 1

(* Bounds of the model, by specification: the saveToHistory calls of a run
   (..Commits) and its zoom operations (..Steps) *)

MaxCommits == 3
SelectCommits == 2
DragCommits == 2
AlignCommits == 4
RoomCommits == 5
CapCommits == 61
ViewCommits == 2
ViewSteps == 3
SnapCommits == 2
SnapSteps == 2

-----------------------------------------------------------------------------
(* Values *)

None == <<>>
Some(v) == <<v>>
Pt(x, y) == [x |-> x, y |-> y]

CollNames == <<"walls", "doors", "windows", "stairs", "rooms", "textLabels", "measurements">>
Collections == {CollNames[i] : i \in 1..Len(CollNames)}

Min2(a, b) == IF a <= b THEN a ELSE b
Max2(a, b) == IF a >= b THEN a ELSE b
Abs(a) == IF a < 0 THEN -a ELSE a

(* The contents of the array a, element by element, as values. *)
ArrValue(a, el, ar) == [i \in 1..Len(ar[a]) |-> el[ar[a][i]]]

(* The deep value of a record of array references (the live store or a snapshot state). *)
StateValue(st, el, ar) == [c \in Collections |-> ArrValue(st[c], el, ar)]

StoreValue == StateValue(store, elems, arrs)

EmptyStoreValue == [c \in Collections |-> <<>>]

(* The history as values: the action and the collections of every snapshot. *)
HistoryValue ==
    [k \in 1..Len(history) |->
        [action |-> history[k].action, state |-> StateValue(history[k].state, elems, arrs)]]

-----------------------------------------------------------------------------
(* History *)

(* Utils.object.clone(array): JSON.parse(JSON.stringify(array)).  New element
   objects with the same field values, in a new array. *)
cloneArray(a, el, ar) ==
    LET n == Len(ar[a])
        copies == [i \in 1..n |-> el[ar[a][i]]]
        refs == [i \in 1..n |-> Len(el) + i]
    IN [elems |-> el \o copies, arrs |-> Append(ar, refs), ref |-> Len(ar) + 1]

RECURSIVE getStateFrom(_, _, _, _, _)
getStateFrom(k, st, acc, el, ar) ==
    IF k > Len(CollNames) THEN [state |-> acc, elems |-> el, arrs |-> ar]
    ELSE LET c == cloneArray(st[CollNames[k]], el, ar)
         IN getStateFrom(k + 1, st, [acc EXCEPT ![CollNames[k]] = c.ref], c.elems, c.arrs)

(* getState(): a clone of each of the seven collections. *)
getState(st, el, ar) == getStateFrom(1, st, st, el, ar)

(* saveToHistory that drops the oldest snapshot one push early. *)
saveToHistoryCappedEarly(action, st, el, ar, hist, idx) ==
    LET g == getState(st, el, ar)
        kept == SubSeq(hist, 1, idx + 1)
        pushed == Append(kept, [action |-> action, state |-> g.state])
    IN IF Len(pushed) >= maxHistorySize
       THEN [history |-> Tail(pushed), historyIndex |-> idx, elems |-> g.elems, arrs |-> g.arrs]
       ELSE [history |-> pushed, historyIndex |-> idx + 1, elems |-> g.elems, arrs |-> g.arrs]

(* saveToHistory that keeps the first of the redo states. *)
saveToHistoryKeepingOneRedo(action, st, el, ar, hist, idx) ==
    LET g == getState(st, el, ar)
        kept == SubSeq(hist, 1, IF idx + 2 <= Len(hist) THEN idx + 2 ELSE idx + 1)
        pushed == Append(kept, [action |-> action, state |-> g.state])
    IN IF Len(pushed) > maxHistorySize
       THEN [history |-> Tail(pushed), historyIndex |-> idx, elems |-> g.elems, arrs |-> g.arrs]
       ELSE [history |-> pushed, historyIndex |-> idx + 1, elems |-> g.elems, arrs |-> g.arrs]

(* saveToHistory that keeps the redo states instead of removing them. *)
saveToHistoryKeepingRedo(action, st, el, ar, hist, idx) ==
    LET g == getState(st, el, ar)
        pushed == Append(hist, [action |-> action, state |-> g.state])
    IN IF Len(pushed) > maxHistorySize
       THEN [history |-> Tail(pushed), historyIndex |-> idx, elems |-> g.elems, arrs |-> g.arrs]
       ELSE [history |-> pushed, historyIndex |-> idx + 1, elems |-> g.elems, arrs |-> g.arrs]

(* saveToHistory(action) on the store st and heap el, ar. *)
saveToHistory(action, st, el, ar, hist, idx) ==
    LET g == getState(st, el, ar)
        kept == SubSeq(hist, 1, idx + 1)
        pushed == Append(kept, [action |-> action, state |-> g.state])
    IN IF Len(pushed) > maxHistorySize
       THEN [history |-> Tail(pushed), historyIndex |-> idx, elems |-> g.elems, arrs |-> g.arrs]
       ELSE [history |-> pushed, historyIndex |-> idx + 1, elems |-> g.elems, arrs |-> g.arrs]

(* restoreState(state): the live collections become the snapshot's own arrays. *)
restoreState(state) == state

-----------------------------------------------------------------------------
(* Geometry kernel (Utils.geometry).  Distances are compared by their squares;
   zoom is the rational zoom[1] / zoom[2]. *)

DistSq(p, q) == (q.x - p.x) * (q.x - p.x) + (q.y - p.y) * (q.y - p.y)

(* isPointNearLine(point, a, b, threshold) with threshold = pixels / zoom:
   distanceToLineSegment(point, a, b) <= threshold, t clamped to [0, 1]. *)
isPointNearLine(point, a, b, pixels, z) ==
    LET len2 == DistSq(a, b)
        dot == (point.x - a.x) * (b.x - a.x) + (point.y - a.y) * (b.y - a.y)
        thr2n == pixels * pixels * z[2] * z[2]       \* threshold^2 = thr2n / z[1]^2
        n2 == z[1] * z[1]
    IN IF len2 = 0 THEN DistSq(point, a) * n2 <= thr2n
       ELSE IF dot <= 0 THEN DistSq(point, a) * n2 <= thr2n
       ELSE IF dot >= len2 THEN DistSq(point, b) * n2 <= thr2n
       ELSE (DistSq(point, a) * len2 - dot * dot) * n2 <= thr2n * len2

(* isPointInPolygon(point, polygon): ray casting over the edges (j, i), j the
   index before i, cyclically. *)
RECURSIVE crossings(_, _, _)
crossings(point, poly, i) ==
    IF i > Len(poly) THEN 0
    ELSE LET j == IF i = 1 THEN Len(poly) ELSE i - 1
             xi == poly[i].x
             yi == poly[i].y
             xj == poly[j].x
             yj == poly[j].y
             d == yj - yi
             lhs == (point.x - xi) * d
             rhs == (xj - xi) * (point.y - yi)
             intersect == /\ (yi > point.y) # (yj > point.y)
                          /\ IF d > 0 THEN lhs < rhs ELSE lhs > rhs
         IN (IF intersect THEN 1 ELSE 0) + crossings(point, poly, i + 1)

isPointInPolygon(point, poly) == crossings(point, poly, 1) % 2 = 1

(* polygonArea(points): the shoelace sum; the area is |sum| / 2.  Twice the area. *)
RECURSIVE shoelace(_, _)
shoelace(points, i) ==
    IF i > Len(points) THEN 0
    ELSE LET j == (i % Len(points)) + 1
         IN points[i].x * points[j].y - points[j].x * points[i].y + shoelace(points, i + 1)

polygonArea2(points) == Abs(shoelace(points, 1))

RECURSIVE SumX(_, _)
SumX(points, i) == IF i > Len(points) THEN 0 ELSE points[i].x + SumX(points, i + 1)
RECURSIVE SumY(_, _)
SumY(points, i) == IF i > Len(points) THEN 0 ELSE points[i].y + SumY(points, i + 1)

(* polygonCenter(points): the mean of the vertices, each coordinate a rational
   <<sum, count>>. *)
polygonCenter(points) == [x |-> <<SumX(points, 1), Len(points)>>,
                          y |-> <<SumY(points, 1), Len(points)>>]

SetMin(S) == CHOOSE m \in S : \A n \in S : m <= n
SetMax(S) == CHOOSE m \in S : \A n \in S : m >= n

(* getBoundingBox(points), points a non-empty sequence. *)
getBoundingBox(points) ==
    LET xs == {points[i].x : i \in 1..Len(points)}
        ys == {points[i].y : i \in 1..Len(points)}
    IN [minX |-> SetMin(xs), maxX |-> SetMax(xs), minY |-> SetMin(ys), maxY |-> SetMax(ys),
        width |-> SetMax(xs) - SetMin(xs), height |-> SetMax(ys) - SetMin(ys)]

-----------------------------------------------------------------------------
(* Elements *)

HasStartEnd(e) == "start" \in DOMAIN e      \* elem.start && elem.end
HasPoints(e) == "points" \in DOMAIN e       \* elem.points

(* The points of an element, as getElementBounds and getSelectionBounds collect them. *)
ElemPoints(e) ==
    IF HasStartEnd(e) THEN <<e.start, e.end>>
    ELSE IF HasPoints(e) THEN e.points
    ELSE <<>>

(* A move that adds the offset to the start of a segment and leaves its end. *)
translateStartOnly(e, dx, dy) ==
    IF "start" \in DOMAIN e
    THEN [e EXCEPT !.start = [x |-> e.start.x + dx, y |-> e.start.y + dy]]
    ELSE e

(* elem.start.x += dx ... / elem.points.forEach(p => p.x += dx ...) *)
translate(e, dx, dy) ==
    IF HasStartEnd(e)
    THEN [e EXCEPT !.start = Pt(e.start.x + dx, e.start.y + dy),
                   !.end = Pt(e.end.x + dx, e.end.y + dy)]
    ELSE IF HasPoints(e)
    THEN [e EXCEPT !.points = [i \in 1..Len(e.points) |->
                                  Pt(e.points[i].x + dx, e.points[i].y + dy)]]
    ELSE e

SeqToSet(s) == {s[i] : i \in 1..Len(s)}
Includes(s, v) == \E i \in 1..Len(s) : s[i] = v

(* array.indexOf(v), 0-based, -1 when absent. *)
IndexOf(s, v) == IF Includes(s, v) THEN (CHOOSE i \in 1..Len(s) : s[i] = v /\ \A j \in 1..(i - 1) : s[j] # v) - 1
                 ELSE -1

(* array.splice(index, 1), index 0-based.  splice(-1, 1) is never called by the
   code modelled; an index past the end removes nothing. *)
Splice1(s, index) ==
    IF index < 0 \/ index >= Len(s) THEN s
    ELSE SubSeq(s, 1, index) \o SubSeq(s, index + 2, Len(s))

(* array.filter *)
RECURSIVE FilterOut(_, _)
FilterOut(s, v) ==
    IF s = <<>> THEN <<>>
    ELSE IF Head(s) = v THEN FilterOut(Tail(s), v)
    ELSE <<Head(s)>> \o FilterOut(Tail(s), v)

(* The element references held by the live collections. *)
LiveRefs == UNION {SeqToSet(arrs[store[c]]) : c \in Collections}

-----------------------------------------------------------------------------
(* Hit testing *)

(* isPointInStairs(point, stair, threshold): the rectangle start, end,
   end + n, start + n with n the direction turned by +90 degrees, of length
   stair.width.  createElement sets width = length / 2 and every move is a
   translation, so n = (-dy / 2, dx / 2); the test is made on doubled
   coordinates.  The threshold is not used by the code. *)
isPointInStairs(point, stair) ==
    LET s == stair.start
        e == stair.end
        dx == e.x - s.x
        dy == e.y - s.y
        corners == << Pt(2 * s.x, 2 * s.y), Pt(2 * e.x, 2 * e.y),
                      Pt(2 * e.x - dy, 2 * e.y + dx), Pt(2 * s.x - dy, 2 * s.y + dx) >>
    IN isPointInPolygon(Pt(2 * point.x, 2 * point.y), corners)

(* findElementAtPoint(point, threshold = 10): stairs, doors, windows, walls,
   rooms, each collection from its last element to its first.  null (<<>>) or
   {type, element, index}. *)
findElementAtPoint(point, st, el, ar, z) ==
    LET stairsHit == {i \in 1..Len(ar[st.stairs]) : isPointInStairs(point, el[ar[st.stairs][i]])}
        near(c) == {i \in 1..Len(ar[st[c]]) :
                       isPointNearLine(point, el[ar[st[c]][i]].start, el[ar[st[c]][i]].end, 10, z)}
        roomsHit == {i \in 1..Len(ar[st.rooms]) :
                        /\ HasPoints(el[ar[st.rooms][i]])
                        /\ isPointInPolygon(point, el[ar[st.rooms][i]].points)}
        found(type, c, S) == Some([type |-> type, element |-> ar[st[c]][SetMax(S)],
                                   index |-> SetMax(S) - 1])
    IN IF stairsHit # {} THEN found("stairs", "stairs", stairsHit)
       ELSE IF near("doors") # {} THEN found("door", "doors", near("doors"))
       ELSE IF near("windows") # {} THEN found("window", "windows", near("windows"))
       ELSE IF near("walls") # {} THEN found("wall", "walls", near("walls"))
       ELSE IF roomsHit # {} THEN found("room", "rooms", roomsHit)
       ELSE None

(* isElementInRect(elem, rect) *)
isElementInRect(e, rect) ==
    LET inside(p) == /\ p.x >= rect.minX /\ p.x <= rect.maxX
                     /\ p.y >= rect.minY /\ p.y <= rect.maxY
    IN IF HasStartEnd(e) THEN inside(e.start) \/ inside(e.end)
       ELSE IF HasPoints(e) THEN \E i \in 1..Len(e.points) : inside(e.points[i])
       ELSE FALSE

-----------------------------------------------------------------------------
(* Initial state: the constructor *)

Init ==
    /\ elems = <<>>
    /\ arrs = [i \in 1..Len(CollNames) |-> <<>>]
    /\ store = [c \in Collections |-> CHOOSE i \in 1..Len(CollNames) : CollNames[i] = c]
    /\ history = <<>>
    /\ historyIndex = -1
    /\ selectedElements = <<>>
    /\ lockedElements = <<>>
    /\ clipboard = None
    /\ currentTool = "select"
    /\ isDrawing = FALSE
    /\ isPanning = FALSE
    /\ spacebarPanning = FALSE
    /\ isDragging = FALSE
    /\ isSelectingRectangle = FALSE
    /\ startPoint = None
    /\ currentPoint = None
    /\ selectionStart = None
    /\ dragStart = None
    /\ dragOffset = Pt(0, 0)
    /\ lastPanPoint = None
    /\ orthogonalMode = FALSE
    /\ snapPointField = None
    /\ snapToGrid = TRUE
    /\ zoom = <<1, 1>>
    /\ panOffset = [x |-> <<0, 1>>, y |-> <<0, 1>>]
    /\ thrown = FALSE
    /\ nCommits = 0
    /\ nUndoCalls = 0
    /\ onlyAddsThenUndos = TRUE
    /\ undoStack = <<>>
    /\ redoExpected = None
    /\ alignInfo = None
    /\ detectInfo = None
    /\ gesture = None
    /\ calc = None
    /\ nViewOps = 0
    /\ snapResult = None

-----------------------------------------------------------------------------
(* Bookkeeping of the observers; no part of the engine. *)

(* An operation other than undo and redo: op names it, commits is the number of
   saveToHistory calls it made, adds whether it was a createElement call that
   added an element.  ViewOps are the operations counted as zoom operations. *)
ViewOps == {"handleWheel", "zoomIn", "zoomOut", "zoomFit", "zoomToSelection", "resetZoom"}

GestureOps == {"mouseMove", "keyEscape", "mouseUp", "deleteSnapPoint"}

(* The gesture the flags stand for, in the order handleMouseUp tests them. *)
gestureKind ==
    IF isPanning THEN "pan"
    ELSE IF isDragging THEN "drag"
    ELSE IF isSelectingRectangle THEN "rectangle"
    ELSE IF isDrawing THEN "draw"
    ELSE "none"

ObserveGesture(op) ==
    LET ended == [kind |-> gestureKind,
                  start |-> IF gestureKind = "drag" THEN dragStart ELSE startPoint,
                  current |-> IF gestureKind = "drag" THEN Some(dragOffset) ELSE currentPoint]
    IN gesture' =
        IF op = "mouseDown"
        THEN Some([store |-> StoreValue, history |-> HistoryValue, index |-> historyIndex,
                   kind |-> "", start |-> None, current |-> None,
                   cancelled |-> FALSE, released |-> FALSE])
        ELSE IF gesture = None \/ op \notin GestureOps THEN None
        ELSE IF gesture[1].released THEN None
        ELSE IF op = "keyEscape" /\ ~gesture[1].cancelled
        THEN Some([gesture[1] EXCEPT !.cancelled = TRUE, !.kind = ended.kind,
                                     !.start = ended.start, !.current = ended.current])
        ELSE IF op = "mouseUp"
        THEN IF gesture[1].cancelled
             THEN Some([gesture[1] EXCEPT !.released = TRUE])
             ELSE Some([gesture[1] EXCEPT !.released = TRUE, !.kind = ended.kind,
                                          !.start = ended.start, !.current = ended.current])
        ELSE gesture

ObserveRun(op, commits, adds) ==
    /\ ObserveGesture(op)
    /\ UNCHANGED calc
    /\ nCommits' = nCommits + commits
    /\ nViewOps' = IF op \in ViewOps THEN nViewOps + 1 ELSE nViewOps
    /\ nUndoCalls' = 0
    /\ onlyAddsThenUndos' = (onlyAddsThenUndos /\ adds /\ nUndoCalls = 0)
    /\ undoStack' = <<>>
    /\ redoExpected' = None

Observe(op, commits, adds) ==
    /\ ObserveRun(op, commits, adds)
    /\ alignInfo' = None
    /\ detectInfo' = None

(* The heap and history after saveToHistory(action) on the store st, heap el, ar. *)
Commit(action, st, el, ar) ==
    LET r == saveToHistory(action, st, el, ar, history, historyIndex)
    IN /\ store' = st
       /\ elems' = r.elems
       /\ arrs' = r.arrs
       /\ history' = r.history
       /\ historyIndex' = r.historyIndex

-----------------------------------------------------------------------------
(* DrywallCalculator (calculator.js).  A quantity that need not be an integer
   is held as an integer number of quarters: the finish-level multipliers are
   0, 0.5, 0.75, 1.0, 1.25 and 1.5, and sheets / 8 * multiplier is
   sheets * quarters / 32, exactly. *)

STANDARD_EXTERIOR_DOOR == 20    \* STANDARD_EXTERIOR_DOOR.area
STANDARD_DOOR_SIZE == 21        \* STANDARD_DOOR_SIZE.area
STANDARD_WINDOW == 12           \* STANDARD_WINDOW.area
mud_per_sheet == 8              \* COVERAGE.mud_per_sheet

FinishLevels == {"level0", "level1", "level2", "level3", "level4", "level5"}

(* The table multipliers of calculateJointCompound, in quarters. *)
multipliers ==
    [level0 |-> 0, level1 |-> 2, level2 |-> 3, level3 |-> 4, level4 |-> 5, level5 |-> 6]

(* Math.ceil(n / d) for n >= 0, d > 0 *)
Ceil(n, d) == (n + d - 1) \div d

(* calculateJointCompound(sheets, finishLevel): multipliers[finishLevel] || 1.25
   takes 1.25 for a level that is not in the table and for one whose
   multiplier is 0. *)
calculateJointCompound(sheets, finishLevel) ==
    LET multiplier == IF finishLevel \in DOMAIN multipliers /\ multipliers[finishLevel] # 0
                      THEN multipliers[finishLevel]
                      ELSE 5
    IN Ceil(sheets * multiplier, mud_per_sheet * 4)

(* reduce over doorDetails / windowDetails: (d.width || w) * (d.height || h) *)
RECURSIVE detailArea(_, _, _)
detailArea(details, w, h) ==
    IF details = <<>> THEN 0
    ELSE (IF Head(details).width # 0 THEN Head(details).width ELSE w)
            * (IF Head(details).height # 0 THEN Head(details).height ELSE h)
         + detailArea(Tail(details), w, h)

(* calculateWallArea(room): doors, windows, doorDetails and windowDetails of
   room are None when the room has no such property. *)
calculateWallArea(room) ==
    LET doors == IF room.doors = None THEN 0 ELSE room.doors[1]
        windows == IF room.windows = None THEN 0 ELSE room.windows[1]
        perimeter == 2 * (room.width + room.length)
        grossArea == perimeter * room.height
        doorArea == IF room.doorDetails # None
                    THEN detailArea(room.doorDetails[1], 3, 7)
                    ELSE doors * STANDARD_DOOR_SIZE
        windowArea == IF room.windowDetails # None
                      THEN detailArea(room.windowDetails[1], 3, 4)
                      ELSE windows * STANDARD_WINDOW
    IN [gross |-> grossArea, openings |-> doorArea + windowArea,
        net |-> grossArea - doorArea - windowArea, perimeter |-> perimeter]

(* A call of calculateJointCompound *)
CalculateJointCompound(sheets, finishLevel) ==
    /\ calc' = Some([op |-> "calculateJointCompound", sheets |-> sheets,
                     finishLevel |-> finishLevel,
                     result |-> calculateJointCompound(sheets, finishLevel)])
    /\ UNCHANGED managerVars

(* A call of calculateWallArea *)
CalculateWallArea(room) ==
    /\ calc' = Some([op |-> "calculateWallArea", room |-> room,
                     result |-> calculateWallArea(room)])
    /\ UNCHANGED managerVars

-----------------------------------------------------------------------------
(* Element creation and deletion *)

WallTypes == {"wall-exterior", "wall-interior", "wall-partition"}
DoorTypes == {"door-interior", "door-exterior"}
WindowTypes == {"window-standard", "window-large"}
StairsTypes == {"stairs-up", "stairs-down"}

(* The collection createElement pushes an element of this type to, by the
   prefix of the type (type.startsWith), or "" when it pushes nothing. *)
collectionOfType(type) ==
    IF type \in WallTypes THEN "walls"
    ELSE IF type \in DoorTypes THEN "doors"
    ELSE IF type \in WindowTypes THEN "windows"
    ELSE IF type \in StairsTypes THEN "stairs"
    ELSE IF type = "measure" THEN "measurements"
    ELSE ""

historyLabelOfType(type) ==
    IF type \in WallTypes THEN "add wall"
    ELSE IF type \in DoorTypes THEN "add door"
    ELSE IF type \in WindowTypes THEN "add window"
    ELSE IF type \in StairsTypes THEN "add stairs"
    ELSE "add measurement"

(* The element object createElement builds.  A stairs element gets
   width = length / 2, kept as the rational square <<length^2, 4>>, and 14 risers. *)
newElement(type, start, end) ==
    IF type \in StairsTypes
    THEN [start |-> start, end |-> end, type |-> type,
          width |-> <<DistSq(start, end), 4>>, risers |-> 14]
    ELSE [start |-> start, end |-> end, type |-> type]

(* createElement(type, start, end): push to the live array of the type's
   collection and saveToHistory; nothing for any other type. *)
createElement(type, start, end) ==
    LET c == collectionOfType(type)
        el == Append(elems, newElement(type, start, end))
        ar == [arrs EXCEPT ![store[c]] = Append(@, Len(el))]
    IN IF c # ""
       THEN Commit(historyLabelOfType(type), store, el, ar)
       ELSE UNCHANGED <<heapVars, histVars>>

(* The public method createElement called by the host. *)
CreateElement(type, start, end) ==
    /\ createElement(type, start, end)
    /\ thrown' = FALSE
    /\ Observe("createElement", IF collectionOfType(type) # "" THEN 1 ELSE 0,
               collectionOfType(type) # "")
    /\ UNCHANGED <<selVars, currentTool, modeVars, pointVars, viewVars, snapVars>>

-----------------------------------------------------------------------------
(* Undo and redo *)

(* An undo() that tests historyIndex >= 0: at index 0 it steps the index to -1
   and reads the state of a snapshot that does not exist, which throws. *)
UndoFromZero ==
    /\ IF historyIndex > 0
       THEN /\ historyIndex' = historyIndex - 1
            /\ store' = restoreState(history[historyIndex].state)
            /\ undoStack' = Append(undoStack, StoreValue)
       ELSE IF historyIndex = 0
       THEN /\ historyIndex' = historyIndex - 1
            /\ UNCHANGED <<store, undoStack>>
       ELSE /\ UNCHANGED <<historyIndex, store>>
            /\ UNCHANGED undoStack
    /\ nUndoCalls' = IF onlyAddsThenUndos THEN nUndoCalls + 1 ELSE 0
    /\ redoExpected' = None
    /\ alignInfo' = None
    /\ detectInfo' = None
    /\ gesture' = None
    /\ UNCHANGED calc
    /\ thrown' = (historyIndex = 0)
    /\ UNCHANGED <<elems, arrs, history, nCommits, onlyAddsThenUndos, nViewOps>>
    /\ UNCHANGED <<selVars, currentTool, modeVars, pointVars, viewVars, snapVars>>

Undo ==
    /\ IF historyIndex > 0
       THEN /\ historyIndex' = historyIndex - 1
            /\ store' = restoreState(history[historyIndex].state)  \* history[historyIndex - 1] in the 0-based code
            /\ undoStack' = Append(undoStack, StoreValue)
       ELSE /\ UNCHANGED <<historyIndex, store>>
            /\ UNCHANGED undoStack
    /\ nUndoCalls' = IF onlyAddsThenUndos THEN nUndoCalls + 1 ELSE 0
    /\ redoExpected' = None
    /\ alignInfo' = None
    /\ detectInfo' = None
    /\ gesture' = None
    /\ UNCHANGED calc
    /\ thrown' = FALSE
    /\ UNCHANGED <<elems, arrs, history, nCommits, onlyAddsThenUndos, nViewOps>>
    /\ UNCHANGED <<selVars, currentTool, modeVars, pointVars, viewVars, snapVars>>

Redo ==
    /\ IF historyIndex < Len(history) - 1
       THEN /\ historyIndex' = historyIndex + 1
            /\ store' = restoreState(history[historyIndex + 2].state)  \* history[historyIndex + 1] in the 0-based code
            /\ IF undoStack # <<>>
               THEN /\ redoExpected' = Some(undoStack[Len(undoStack)])
                    /\ undoStack' = SubSeq(undoStack, 1, Len(undoStack) - 1)
               ELSE /\ redoExpected' = None
                    /\ UNCHANGED undoStack
       ELSE /\ UNCHANGED <<historyIndex, store, undoStack>>
            /\ redoExpected' = None
    /\ nUndoCalls' = 0
    /\ onlyAddsThenUndos' = FALSE
    /\ alignInfo' = None
    /\ detectInfo' = None
    /\ gesture' = None
    /\ UNCHANGED calc
    /\ thrown' = FALSE
    /\ UNCHANGED <<elems, arrs, history, nCommits, nViewOps>>
    /\ UNCHANGED <<selVars, currentTool, modeVars, pointVars, viewVars, snapVars>>

-----------------------------------------------------------------------------
(* Deletion *)

(* deleteSelected(): each selected element is spliced out of the live array
   that holds it; the selection is emptied; saveToHistory. *)
RECURSIVE removeAll(_, _, _)
removeAll(sel, k, ar) ==
    IF k > Len(sel) THEN ar
    ELSE removeAll(sel, k + 1,
                   [a \in 1..Len(ar) |->
                       IF a \in {store[c] : c \in {"walls", "doors", "windows", "stairs", "rooms"}}
                       THEN Splice1(ar[a], IndexOf(ar[a], sel[k]))
                       ELSE ar[a]])

DeleteSelected ==
    /\ Commit("delete elements", store, elems, removeAll(selectedElements, 1, arrs))
    /\ selectedElements' = <<>>
    /\ thrown' = FALSE
    /\ Observe("deleteSelected", 1, FALSE)
    /\ UNCHANGED <<lockedElements, clipboard, currentTool, modeVars, pointVars, viewVars, snapVars>>

(* The collection deleteElement splices for a hit of this type. *)
collectionOfHit(type) ==
    CASE type = "wall" -> "walls"
      [] type = "door" -> "doors"
      [] type = "window" -> "windows"
      [] type = "stairs" -> "stairs"
      [] type = "room" -> "rooms"

(* deleteElement(found): splice by index, drop the element from the
   selection, saveToHistory. *)
deleteElement(found) ==
    /\ Commit("delete " \o found.type, store, elems,
              [arrs EXCEPT ![store[collectionOfHit(found.type)]] = Splice1(@, found.index)])
    /\ selectedElements' = FilterOut(selectedElements, found.element)

(* clearAll() *)
ClearAll ==
    LET n == Len(arrs)
        ar == arrs \o [i \in 1..Len(CollNames) |-> <<>>]
        st == [c \in Collections |-> n + (CHOOSE i \in 1..Len(CollNames) : CollNames[i] = c)]
    IN /\ Commit("clear all", st, elems, ar)
       /\ selectedElements' = <<>>
       /\ thrown' = FALSE
       /\ Observe("clearAll", 1, FALSE)
       /\ UNCHANGED <<lockedElements, clipboard, currentTool, modeVars, pointVars, viewVars, snapVars>>

(* setTool(tool) *)
SetTool(tool) ==
    /\ currentTool' = tool
    /\ selectedElements' = <<>>
    /\ thrown' = FALSE
    /\ Observe("setTool", 0, FALSE)
    /\ UNCHANGED <<heapVars, histVars, lockedElements, clipboard, modeVars, pointVars, viewVars, snapVars>>

-----------------------------------------------------------------------------
(* Selection, locking, nudge and alignment *)

(* selectAll() *)
SelectAll ==
    /\ selectedElements' = arrs[store.walls] \o arrs[store.doors] \o arrs[store.windows]
                              \o arrs[store.stairs] \o arrs[store.rooms]
    /\ thrown' = FALSE
    /\ Observe("selectAll", 0, FALSE)
    /\ UNCHANGED <<heapVars, histVars, lockedElements, clipboard, currentTool, modeVars, pointVars,
                   viewVars, snapVars>>

isElementLocked(e) == Includes(lockedElements, e)

RECURSIVE pushMissing(_, _)
pushMissing(list, sel) ==
    IF sel = <<>> THEN list
    ELSE pushMissing(IF Includes(list, Head(sel)) THEN list ELSE Append(list, Head(sel)), Tail(sel))

(* lockSelected() *)
LockSelected ==
    /\ lockedElements' = pushMissing(lockedElements, selectedElements)
    /\ thrown' = FALSE
    /\ Observe("lockSelected", 0, FALSE)
    /\ UNCHANGED <<heapVars, histVars, selectedElements, clipboard, currentTool, modeVars, pointVars,
                   viewVars, snapVars>>

RECURSIVE spliceEach(_, _)
spliceEach(list, sel) ==
    IF sel = <<>> THEN list
    ELSE spliceEach(Splice1(list, IndexOf(list, Head(sel))), Tail(sel))

(* unlockSelected() *)
UnlockSelected ==
    /\ lockedElements' = spliceEach(lockedElements, selectedElements)
    /\ thrown' = FALSE
    /\ Observe("unlockSelected", 0, FALSE)
    /\ UNCHANGED <<heapVars, histVars, selectedElements, clipboard, currentTool, modeVars, pointVars,
                   viewVars, snapVars>>

(* The heap after translating in place every element of sel that Moves holds,
   the element r by (dxOf[r], dyOf[r]). *)
moveEach(sel, Moves, dxOf, dyOf, el) ==
    [r \in 1..Len(el) |->
        IF Includes(sel, r) /\ r \in Moves THEN translate(el[r], dxOf[r], dyOf[r]) ELSE el[r]]

(* nudgeSelected(dx, dy): locked elements are skipped; saveToHistory. *)
nudgeSelected(dx, dy) ==
    LET selected == SeqToSet(selectedElements)
        notLocked == {r \in selected : ~isElementLocked(r)}
        byDx == [r \in selected |-> dx]
        byDy == [r \in selected |-> dy]
    IN Commit("nudge elements", store, moveEach(selectedElements, notLocked, byDx, byDy, elems), arrs)

NudgeSelected(dx, dy) ==
    /\ nudgeSelected(dx, dy)
    /\ thrown' = FALSE
    /\ Observe("nudgeSelected", 1, FALSE)
    /\ UNCHANGED <<selVars, currentTool, modeVars, pointVars, viewVars, snapVars>>

RECURSIVE concatPoints(_, _, _)
concatPoints(sel, k, el) ==
    IF k > Len(sel) THEN <<>> ELSE ElemPoints(el[sel[k]]) \o concatPoints(sel, k + 1, el)

(* getSelectionBounds(): null (<<>>) or the bounding box of the selection's points. *)
getSelectionBounds(sel, el) ==
    LET points == concatPoints(sel, 1, el)
    IN IF points = <<>> THEN None ELSE Some(getBoundingBox(points))

(* getElementBounds(elem) *)
getElementBounds(e) ==
    IF ElemPoints(e) = <<>> THEN None ELSE Some(getBoundingBox(ElemPoints(e)))

AlignmentKinds == {"left", "right", "top", "bottom", "center-horizontal", "center-vertical"}

(* alignDx taking the element's opposite edge for the edge alignments. *)
alignDxOppositeEdge(alignment, b, eb) ==
    CASE alignment = "left" -> b.minX - eb.maxX
      [] alignment = "right" -> b.maxX - eb.minX
      [] alignment = "center-horizontal" -> ((b.minX + b.maxX) - (eb.minX + eb.maxX)) \div 2
      [] OTHER -> 0

(* The translation alignSelected gives an element with bounds eb in a
   selection with bounds b.  The centre alignments halve a sum of two
   coordinates; AlignExact tells when the result is an integer. *)
alignDx(alignment, b, eb) ==
    CASE alignment = "left" -> b.minX - eb.minX
      [] alignment = "right" -> b.maxX - eb.maxX
      [] alignment = "center-horizontal" -> ((b.minX + b.maxX) - (eb.minX + eb.maxX)) \div 2
      [] OTHER -> 0

alignDy(alignment, b, eb) ==
    CASE alignment = "top" -> b.minY - eb.minY
      [] alignment = "bottom" -> b.maxY - eb.maxY
      [] alignment = "center-vertical" -> ((b.minY + b.maxY) - (eb.minY + eb.maxY)) \div 2
      [] OTHER -> 0

AlignExact(alignment) ==
    LET bs == getSelectionBounds(selectedElements, elems)
    IN \/ alignment \notin {"center-horizontal", "center-vertical"}
       \/ bs = None
       \/ \A i \in 1..Len(selectedElements) :
             LET ebs == getElementBounds(elems[selectedElements[i]])
             IN ebs # None =>
                   /\ ((bs[1].minX + bs[1].maxX) - (ebs[1].minX + ebs[1].maxX)) % 2 = 0
                   /\ ((bs[1].minY + bs[1].maxY) - (ebs[1].minY + ebs[1].maxY)) % 2 = 0

(* alignSelected(alignment): nothing with fewer than two selected elements or
   no bounds; else every selected element that is not locked and has bounds is
   translated, and saveToHistory. *)
AlignSelected(alignment) ==
    LET bs == getSelectionBounds(selectedElements, elems)
        effective == Len(selectedElements) >= 2 /\ bs # None
        moves == {r \in SeqToSet(selectedElements) :
                     ~isElementLocked(r) /\ getElementBounds(elems[r]) # None}
        dxOf == [r \in moves |-> alignDx(alignment, bs[1], getElementBounds(elems[r])[1])]
        dyOf == [r \in moves |-> alignDy(alignment, bs[1], getElementBounds(elems[r])[1])]
    IN /\ IF effective
          THEN Commit("align " \o alignment, store,
                      moveEach(selectedElements, moves, dxOf, dyOf, elems), arrs)
          ELSE UNCHANGED <<heapVars, histVars>>
       /\ thrown' = FALSE
       /\ ObserveRun("alignSelected", IF effective THEN 1 ELSE 0, FALSE)
       /\ alignInfo' = IF effective
                       THEN Some([alignment |-> alignment, bounds |-> bs[1],
                                  moved |-> Cardinality({r \in SeqToSet(selectedElements) :
                                               r \in moves /\ (dxOf[r] # 0 \/ dyOf[r] # 0)})])
                       ELSE None
       /\ detectInfo' = None
       /\ UNCHANGED <<selVars, currentTool, modeVars, pointVars, viewVars, snapVars>>

-----------------------------------------------------------------------------
(* The viewport.  A number that need not be an integer is the rational
   <<num, den>> in lowest terms, den > 0; <<1, 0>> is Infinity. *)

RECURSIVE GCD(_, _)
GCD(a, b) == IF b = 0 THEN a ELSE GCD(b, a % b)

Rat(n, d) ==
    LET g == GCD(Abs(n), Abs(d))
    IN IF d < 0 THEN <<(0 - n) \div g, (0 - d) \div g>> ELSE <<n \div g, d \div g>>

Infinity == <<1, 0>>
RatOfInt(n) == <<n, 1>>
RatMul(a, b) == Rat(a[1] * b[1], a[2] * b[2])
RatAdd(a, b) == Rat(a[1] * b[2] + b[1] * a[2], a[2] * b[2])
RatSub(a, b) == Rat(a[1] * b[2] - b[1] * a[2], a[2] * b[2])
RatDiv(a, b) == Rat(a[1] * b[2], a[2] * b[1])
RatLess(a, b) == a[1] * b[2] < b[1] * a[2]
RatMin(a, b) == IF RatLess(b, a) THEN b ELSE a
RatMax(a, b) == IF RatLess(a, b) THEN b ELSE a

(* a / b for integers a > 0 and b >= 0 *)
Quotient(a, b) == IF b = 0 THEN Infinity ELSE Rat(a, b)

(* Utils.clamp(value, min, max) *)
clamp(value, min, max) == RatMin(RatMax(value, min), max)

minZoom == <<1, 10>>
maxZoom == <<5, 1>>

(* The size resize() gives the canvases: the size of the container. *)
canvasWidth == 800
canvasHeight == 600
padding == 50

(* handleWheel(event): event.deltaY, and the mouse position in the canvas. *)
Wheel(deltaY, mouseX, mouseY) ==
    LET zoomFactor == IF deltaY < 0 THEN <<11, 10>> ELSE <<9, 10>>
        z == clamp(RatMul(zoom, zoomFactor), minZoom, maxZoom)
        zoomRatio == RatDiv(z, zoom)
    IN /\ zoom' = z
       /\ panOffset' = [x |-> RatSub(RatOfInt(mouseX), RatMul(RatSub(RatOfInt(mouseX), panOffset.x), zoomRatio)),
                        y |-> RatSub(RatOfInt(mouseY), RatMul(RatSub(RatOfInt(mouseY), panOffset.y), zoomRatio))]
       /\ thrown' = FALSE
       /\ Observe("handleWheel", 0, FALSE)
       /\ UNCHANGED <<heapVars, histVars, selVars, currentTool, modeVars, pointVars, snapVars>>

(* zoomIn() *)
ZoomIn ==
    /\ zoom' = clamp(RatMul(zoom, <<6, 5>>), minZoom, maxZoom)
    /\ thrown' = FALSE
    /\ Observe("zoomIn", 0, FALSE)
    /\ UNCHANGED <<heapVars, histVars, selVars, currentTool, modeVars, pointVars, panOffset, snapVars>>

(* zoomOut() *)
ZoomOut ==
    /\ zoom' = clamp(RatDiv(zoom, <<6, 5>>), minZoom, maxZoom)
    /\ thrown' = FALSE
    /\ Observe("zoomOut", 0, FALSE)
    /\ UNCHANGED <<heapVars, histVars, selVars, currentTool, modeVars, pointVars, panOffset, snapVars>>

(* The zoom and pan that fit the box b into the canvas, the zoom at most cap:
   Math.min(scaleX, scaleY, cap) and the pan that centres the box. *)
fitZoom(b, cap) ==
    RatMin(RatMin(Quotient(canvasWidth - padding * 2, b.maxX - b.minX),
                  Quotient(canvasHeight - padding * 2, b.maxY - b.minY)),
           RatOfInt(cap))

fitPan(b, z) ==
    [x |-> RatSub(Rat(canvasWidth, 2), RatMul(Rat(b.minX + b.maxX, 2), z)),
     y |-> RatSub(Rat(canvasHeight, 2), RatMul(Rat(b.minY + b.maxY, 2), z))]

RECURSIVE startsAndEnds(_, _, _)
startsAndEnds(refs, k, el) ==
    IF k > Len(refs) THEN <<>>
    ELSE <<el[refs[k]].start, el[refs[k]].end>> \o startsAndEnds(refs, k + 1, el)

(* zoomFit() *)
ZoomFit ==
    LET allPoints == startsAndEnds(arrs[store.walls] \o arrs[store.doors] \o arrs[store.windows]
                                      \o arrs[store.stairs], 1, elems)
        bbox == getBoundingBox(allPoints)
    IN /\ IF allPoints = <<>>
          THEN /\ zoom' = <<1, 1>>
               /\ panOffset' = [x |-> <<0, 1>>, y |-> <<0, 1>>]
          ELSE /\ zoom' = fitZoom(bbox, 2)
               /\ panOffset' = fitPan(bbox, fitZoom(bbox, 2))
       /\ thrown' = FALSE
       /\ Observe("zoomFit", 0, FALSE)
       /\ UNCHANGED <<heapVars, histVars, selVars, currentTool, modeVars, pointVars, snapVars>>

(* zoomToSelection() *)
ZoomToSelection ==
    LET bounds == getSelectionBounds(selectedElements, elems)
    IN /\ IF selectedElements = <<>> \/ bounds = None
          THEN UNCHANGED <<zoom, panOffset>>
          ELSE /\ zoom' = fitZoom(bounds[1], 5)
               /\ panOffset' = fitPan(bounds[1], fitZoom(bounds[1], 5))
       /\ thrown' = FALSE
       /\ Observe("zoomToSelection", 0, FALSE)
       /\ UNCHANGED <<heapVars, histVars, selVars, currentTool, modeVars, pointVars, snapVars>>

(* resetZoom() *)
ResetZoom ==
    /\ zoom' = <<1, 1>>
    /\ panOffset' = [x |-> <<0, 1>>, y |-> <<0, 1>>]
    /\ thrown' = FALSE
    /\ Observe("resetZoom", 0, FALSE)
    /\ UNCHANGED <<heapVars, histVars, selVars, currentTool, modeVars, pointVars, snapVars>>

(* importData(data): data[c] is the array of elements of collection c (empty
   for a collection data does not have), data.zoom and data.panOffset are null
   or a value.  The collections become the arrays of data; zoom and pan are
   taken when truthy; saveToHistory. *)
(* An import that keeps the current collection where the record has none. *)
RECURSIVE importFromKeepingOmitted(_, _, _, _, _)
importFromKeepingOmitted(k, data, st, el, ar) ==
    IF k > Len(CollNames) THEN [store |-> st, elems |-> el, arrs |-> ar]
    ELSE LET c == CollNames[k]
             refs == [i \in 1..Len(data[c]) |-> Len(el) + i]
         IN IF data[c] = <<>>
            THEN importFromKeepingOmitted(k + 1, data, st, el, ar)
            ELSE importFromKeepingOmitted(k + 1, data, [st EXCEPT ![c] = Len(ar) + 1],
                                          el \o data[c], Append(ar, refs))

RECURSIVE importFrom(_, _, _, _, _)
importFrom(k, data, st, el, ar) ==
    IF k > Len(CollNames) THEN [store |-> st, elems |-> el, arrs |-> ar]
    ELSE LET c == CollNames[k]
             refs == [i \in 1..Len(data[c]) |-> Len(el) + i]
         IN importFrom(k + 1, data, [st EXCEPT ![c] = Len(ar) + 1], el \o data[c], Append(ar, refs))

ImportData(data) ==
    LET r == importFrom(1, data, store, elems, arrs)
    IN /\ Commit("import data", r.store, r.elems, r.arrs)
       /\ zoom' = IF data.zoom # None /\ data.zoom[1][1] # 0 THEN data.zoom[1] ELSE zoom
       /\ panOffset' = IF data.panOffset # None THEN data.panOffset[1] ELSE panOffset
       /\ thrown' = FALSE
       /\ Observe("importData", 1, FALSE)
       /\ UNCHANGED <<selVars, currentTool, modeVars, pointVars, snapVars>>

(* An exportData() that hands out the rooms array as the walls. *)
exportDataRoomsAsWalls(st) ==
    [version |-> "1.0", scale |-> scale, gridSize |-> gridSize,
     zoom |-> zoom, panOffset |-> panOffset,
     walls |-> st.rooms, doors |-> st.doors, windows |-> st.windows,
     stairs |-> st.stairs, rooms |-> st.rooms, textLabels |-> st.textLabels,
     measurements |-> st.measurements]

(* exportData(): a new record holding the live arrays themselves (no copy),
   the zoom and the pan offset. *)
exportData(st) ==
    [version |-> "1.0", scale |-> scale, gridSize |-> gridSize,
     zoom |-> zoom, panOffset |-> panOffset,
     walls |-> st.walls, doors |-> st.doors, windows |-> st.windows,
     stairs |-> st.stairs, rooms |-> st.rooms, textLabels |-> st.textLabels,
     measurements |-> st.measurements]

(* importData(exportData()): every collection of the record is an array, so
   the collections become those arrays; zoom is taken when truthy, the pan
   offset always (an object); saveToHistory. *)
ImportExportedData ==
    LET data == exportData(store)
    IN /\ Commit("import data", [c \in Collections |-> data[c]], elems, arrs)
       /\ zoom' = IF data.zoom[1] # 0 THEN data.zoom ELSE zoom
       /\ panOffset' = data.panOffset
       /\ thrown' = FALSE
       /\ Observe("importData", 1, FALSE)
       /\ UNCHANGED <<selVars, currentTool, modeVars, pointVars, snapVars>>

-----------------------------------------------------------------------------
(* Snapping.  Distances are compared by their squares, and the candidates of a
   scan are held in doubled coordinates so that a midpoint is a pair of
   integers: dist(point, c / 2) < r  iff  DistSq(2 point, c) < 4 r^2. *)

snapRadiusPixels == 20

Doubled(p) == Pt(2 * p.x, 2 * p.y)
Halved(c) == [x |-> Rat(c.x, 2), y |-> Rat(c.y, 2)]

(* dist < minDist, where minDist is the radius snapRadiusPixels / z until a
   nearest candidate is held and the distance to it afterwards. *)
closerThanMinDist(point, c, nearest, z) ==
    IF nearest = None
    THEN DistSq(Doubled(point), c) * z[1] * z[1] < 4 * snapRadiusPixels * snapRadiusPixels * z[2] * z[2]
    ELSE DistSq(Doubled(point), c) < DistSq(Doubled(point), nearest[1])

(* The forEach loops of findNearestEndpoint and findNearestMidpoint over the
   candidates cs from the k-th on. *)
RECURSIVE scanNearest(_, _, _, _, _)
scanNearest(cs, k, point, z, nearest) ==
    IF k > Len(cs) THEN nearest
    ELSE scanNearest(cs, k + 1, point, z,
                     IF closerThanMinDist(point, cs[k], nearest, z) THEN Some(cs[k]) ELSE nearest)

(* The endpoints findNearestEndpoint visits, in its order: walls, then doors
   and windows. *)
endpointsOf(st, el, ar) ==
    startsAndEnds(ar[st.walls], 1, el) \o startsAndEnds(ar[st.doors] \o ar[st.windows], 1, el)

RECURSIVE midpoints2(_, _, _)
midpoints2(refs, k, el) ==
    IF k > Len(refs) THEN <<>>
    ELSE <<Pt(el[refs[k]].start.x + el[refs[k]].end.x, el[refs[k]].start.y + el[refs[k]].end.y)>>
         \o midpoints2(refs, k + 1, el)

(* findNearestEndpoint(point, snapRadiusPixels / z): null or the endpoint, doubled *)
findNearestEndpoint(point, z, st, el, ar) ==
    LET eps == endpointsOf(st, el, ar)
    IN scanNearest([i \in 1..Len(eps) |-> Doubled(eps[i])], 1, point, z, None)

(* findNearestMidpoint(point, snapRadiusPixels / z): null or the midpoint, doubled *)
findNearestMidpoint(point, z, st, el, ar) ==
    scanNearest(midpoints2(ar[st.walls], 1, el), 1, point, z, None)

(* Math.round(n / d) for d > 0: halves round up. *)
Round(n, d) == (2 * n + d) \div (2 * d)

(* Utils.geometry.snapToGrid(point, size) *)
snapToGridPoint(point, size) == Pt(Round(point.x, size) * size, Round(point.y, size) * size)

(* The body of the method snapPoint(point): the value returned and the value
   left in the property this.snapPoint. *)
snapPointBody(point, z, grid, st, el, ar) ==
    LET endpoint == findNearestEndpoint(point, z, st, el, ar)
        midpoint == findNearestMidpoint(point, z, st, el, ar)
        gridPoint == Halved(Doubled(snapToGridPoint(point, scale * gridSize)))
    IN IF endpoint # None
       THEN [result |-> Halved(endpoint[1]), field |-> Some(Halved(endpoint[1]) @@ [type |-> "endpoint"])]
       ELSE IF midpoint # None
       THEN [result |-> Halved(midpoint[1]), field |-> Some(Halved(midpoint[1]) @@ [type |-> "midpoint"])]
       ELSE IF grid
       THEN [result |-> gridPoint, field |-> Some(gridPoint @@ [type |-> "grid"])]
       ELSE [result |-> Halved(Doubled(point)), field |-> None]

(* What a call of the resolver left to observe: its argument, the zoom and the
   endpoints it ran with, whether it threw, the value it returned and the kind
   it recorded. *)
snapObserved(point, threw, result, field) ==
    Some([point |-> point, zoom |-> zoom, endpoints |-> endpointsOf(store, elems, arrs),
          threw |-> threw, result |-> result,
          kind |-> IF field = None THEN "" ELSE field[1].type])

(* The instance property this.snapPoint once the host has removed it with
   delete manager.snapPoint: the lookup then finds the method of the class. *)
Inherited == <<"inherited", "method">>

(* this.snapPoint(point) as the handlers write it.  The constructor assigns
   the instance property this.snapPoint = null, and the method of the same name
   only ever assigns it null or a point object; while the instance has the
   property the call throws a TypeError. *)
snapPointCallThrows == snapPointField # Inherited

(* delete manager.snapPoint by the host *)
DeleteSnapPoint ==
    /\ snapPointField' = Inherited
    /\ thrown' = FALSE
    /\ Observe("deleteSnapPoint", 0, FALSE)
    /\ UNCHANGED <<heapVars, histVars, selVars, currentTool, modeVars, pointVars, viewVars,
                   snapToGrid, snapResult>>

(* The method run on the manager, the way
   BlueprintManager.prototype.snapPoint.call(manager, point) runs it. *)
SnapPointMethod(point) ==
    LET r == snapPointBody(point, zoom, snapToGrid, store, elems, arrs)
    IN /\ snapPointField' = r.field
       /\ snapResult' = snapObserved(point, FALSE, Some(r.result), r.field)
       /\ thrown' = FALSE
       /\ Observe("snapPoint", 0, FALSE)
       /\ UNCHANGED <<heapVars, histVars, selVars, currentTool, modeVars, pointVars, viewVars, snapToGrid>>

(* manager.snapPoint(point): the property lookup finds the instance property,
   which is null or a point object, and the call throws a TypeError. *)
SnapPointCall(point) ==
    IF snapPointCallThrows
    THEN /\ thrown' = TRUE
         /\ snapResult' = snapObserved(point, TRUE, None, None)
         /\ Observe("snapPoint", 0, FALSE)
         /\ UNCHANGED <<heapVars, histVars, selVars, currentTool, modeVars, pointVars, viewVars,
                        snapPointField, snapToGrid>>
    ELSE SnapPointMethod(point)

-----------------------------------------------------------------------------
(* Pointer handlers.  point is the world position getMousePosition(event)
   returns; ev carries button, ctrlKey, shiftKey and the client position. *)

(* The coordinates of the model are integers: a pointer step whose snapped
   point is not a pair of integers is left out. *)
Integral(p) == p.x[2] = 1 /\ p.y[2] = 1
IntPoint(p) == Pt(p.x[1], p.y[1])

(* applyOrthogonalConstraint(start, end) *)
applyOrthogonalConstraint(start, end, orthogonal, drawing) ==
    LET dx == end.x - start.x
        dy == end.y - start.y
        avgDist == (Abs(dx) + Abs(dy)) \div 2
    IN IF ~orthogonal /\ ~drawing THEN end
       ELSE IF Abs(dx) > Abs(dy) * 2 THEN Pt(end.x, start.y)
       ELSE IF Abs(dy) > Abs(dx) * 2 THEN Pt(start.x, end.y)
       ELSE IF orthogonal
       THEN Pt(start.x + (IF dx > 0 THEN avgDist ELSE -avgDist),
               start.y + (IF dy > 0 THEN avgDist ELSE -avgDist))
       ELSE end

(* avgDist of applyOrthogonalConstraint is an integer whenever it is used. *)
orthogonalIntegral(start, end, orthogonal) ==
    LET dx == end.x - start.x
        dy == end.y - start.y
    IN (orthogonal /\ Abs(dx) <= Abs(dy) * 2 /\ Abs(dy) <= Abs(dx) * 2)
          => (Abs(dx) + Abs(dy)) % 2 = 0

(* currentTool.startsWith('wall') *)
isWallTool(tool) == tool \in WallTypes

(* handleMouseDown(event) *)
MouseDown(point, ev) ==
    LET found == findElementAtPoint(point, store, elems, arrs, zoom)
        base == IF ev.shiftKey THEN selectedElements ELSE <<>>
        snap == snapPointBody(point, zoom, snapToGrid, store, elems, arrs)
        draws == /\ ~(spacebarPanning \/ ev.button = 1 \/ (ev.button = 0 /\ ev.ctrlKey))
                 /\ ev.button = 0 /\ currentTool \notin {"select", "erase"}
    IN
    /\ snapPointField' = IF draws /\ ~snapPointCallThrows THEN snap.field ELSE snapPointField
    /\ Observe("mouseDown",
               IF /\ ~(spacebarPanning \/ ev.button = 1 \/ (ev.button = 0 /\ ev.ctrlKey))
                  /\ ev.button = 0 /\ currentTool = "erase" /\ found # None
               THEN 1 ELSE 0, FALSE)
    /\ IF spacebarPanning \/ ev.button = 1 \/ (ev.button = 0 /\ ev.ctrlKey)
       THEN /\ isPanning' = TRUE
            /\ lastPanPoint' = Some(Pt(ev.clientX, ev.clientY))
            /\ thrown' = FALSE
            /\ UNCHANGED <<heapVars, histVars, selVars, isDrawing, spacebarPanning, isDragging,
                           isSelectingRectangle, startPoint, currentPoint, selectionStart,
                           dragStart, dragOffset>>
       ELSE IF ev.button # 0
       THEN /\ thrown' = FALSE
            /\ UNCHANGED <<heapVars, histVars, selVars, modeVars, startPoint, currentPoint,
                           selectionStart, dragStart, dragOffset, lastPanPoint>>
       ELSE IF currentTool = "select"
       THEN IF found # None
            THEN /\ selectedElements' = IF Includes(base, found[1].element) THEN base
                                        ELSE Append(base, found[1].element)
                 /\ isDragging' = TRUE
                 /\ dragStart' = Some(point)
                 /\ dragOffset' = Pt(0, 0)
                 /\ thrown' = FALSE
                 /\ UNCHANGED <<heapVars, histVars, lockedElements, clipboard, isDrawing, isPanning,
                                spacebarPanning, isSelectingRectangle, startPoint, currentPoint,
                                selectionStart, lastPanPoint>>
            ELSE /\ selectedElements' = base
                 /\ isSelectingRectangle' = TRUE
                 /\ selectionStart' = Some(point)
                 /\ currentPoint' = Some(point)
                 /\ thrown' = FALSE
                 /\ UNCHANGED <<heapVars, histVars, lockedElements, clipboard, isDrawing, isPanning,
                                spacebarPanning, isDragging, startPoint, dragStart, dragOffset,
                                lastPanPoint>>
       ELSE IF currentTool = "erase"
       THEN IF found # None
            THEN /\ deleteElement(found[1])
                 /\ thrown' = FALSE
                 /\ UNCHANGED <<lockedElements, clipboard, modeVars, startPoint, currentPoint,
                                selectionStart, dragStart, dragOffset, lastPanPoint>>
            ELSE /\ thrown' = FALSE
                 /\ UNCHANGED <<heapVars, histVars, selVars, modeVars, startPoint, currentPoint,
                                selectionStart, dragStart, dragOffset, lastPanPoint>>
       ELSE \* start drawing: isDrawing is set, then this.snapPoint(point) is called
            /\ isDrawing' = TRUE
            /\ thrown' = snapPointCallThrows
            /\ IF snapPointCallThrows
               THEN UNCHANGED <<startPoint, currentPoint>>
               ELSE /\ Integral(snap.result)
                    /\ startPoint' = Some(IntPoint(snap.result))
                    /\ currentPoint' = Some(IntPoint(snap.result))
            /\ UNCHANGED <<heapVars, histVars, selVars, isPanning, spacebarPanning, isDragging,
                           isSelectingRectangle, selectionStart, dragStart, dragOffset,
                           lastPanPoint>>
    /\ UNCHANGED <<currentTool, orthogonalMode, viewVars, snapToGrid, snapResult>>

(* handleMouseMove(event) *)
MouseMove(point, ev) ==
    LET snap == snapPointBody(point, zoom, snapToGrid, store, elems, arrs)
        constrained == isWallTool(currentTool) /\ startPoint # None
        snapped == IF constrained
                   THEN applyOrthogonalConstraint(startPoint[1], IntPoint(snap.result),
                                                  ev.shiftKey, TRUE)
                   ELSE IntPoint(snap.result)
        calls == ~isPanning /\ ~isDragging /\ ~isSelectingRectangle
    IN
    /\ orthogonalMode' = ev.shiftKey
    /\ snapPointField' = IF calls /\ ~snapPointCallThrows THEN snap.field ELSE snapPointField
    /\ Observe("mouseMove", 0, FALSE)
    /\ IF isPanning
       THEN /\ panOffset' = [x |-> <<panOffset.x[1] + (ev.clientX - lastPanPoint[1].x) * panOffset.x[2],
                                      panOffset.x[2]>>,
                               y |-> <<panOffset.y[1] + (ev.clientY - lastPanPoint[1].y) * panOffset.y[2],
                                      panOffset.y[2]>>]
            /\ lastPanPoint' = Some(Pt(ev.clientX, ev.clientY))
            /\ thrown' = FALSE
            /\ UNCHANGED <<dragOffset, currentPoint>>
       ELSE IF isDragging
       THEN /\ dragOffset' = Pt(point.x - dragStart[1].x, point.y - dragStart[1].y)
            /\ thrown' = FALSE
            /\ UNCHANGED <<panOffset, lastPanPoint, currentPoint>>
       ELSE IF isSelectingRectangle
       THEN /\ currentPoint' = Some(point)
            /\ thrown' = FALSE
            /\ UNCHANGED <<panOffset, lastPanPoint, dragOffset>>
       ELSE \* drawing or hovering: both branches begin with this.snapPoint(point)
            /\ thrown' = snapPointCallThrows
            /\ IF isDrawing /\ ~snapPointCallThrows
               THEN /\ Integral(snap.result)
                    /\ constrained =>
                           orthogonalIntegral(startPoint[1], IntPoint(snap.result), ev.shiftKey)
                    /\ currentPoint' = Some(snapped)
               ELSE UNCHANGED currentPoint
            /\ UNCHANGED <<panOffset, lastPanPoint, dragOffset>>
    /\ UNCHANGED <<heapVars, histVars, selVars, currentTool, modeVars, startPoint, selectionStart,
                   dragStart, zoom, snapToGrid, snapResult>>

(* The selection a completed rectangle gives: walls, doors, windows, stairs. *)
RECURSIVE inRect(_, _, _)
inRect(refs, rect, el) ==
    IF refs = <<>> THEN <<>>
    ELSE (IF isElementInRect(el[Head(refs)], rect) THEN <<Head(refs)>> ELSE <<>>)
         \o inRect(Tail(refs), rect, el)

rectSelected(rect) ==
    inRect(arrs[store.walls] \o arrs[store.doors] \o arrs[store.windows] \o arrs[store.stairs],
           rect, elems)

(* A length test that lets every element through. *)
belowMinimumLengthNever(start, end) == DistSq(start, end) < 0

(* distance < 5 of handleMouseUp ("ignore tiny elements") *)
belowMinimumLength(start, end) == DistSq(start, end) < 25

(* handleMouseUp(event) *)
MouseUp(ev) ==
    LET moved == dragOffset.x # 0 \/ dragOffset.y # 0
        always == SeqToSet(selectedElements)
        byDx == [r \in always |-> dragOffset.x]
        byDy == [r \in always |-> dragOffset.y]
        rect == [minX |-> Min2(selectionStart[1].x, currentPoint[1].x),
                 maxX |-> Max2(selectionStart[1].x, currentPoint[1].x),
                 minY |-> Min2(selectionStart[1].y, currentPoint[1].y),
                 maxY |-> Max2(selectionStart[1].y, currentPoint[1].y)]
        creates == /\ ~isPanning /\ ~isDragging /\ ~isSelectingRectangle /\ isDrawing
                   /\ startPoint # None /\ currentPoint # None
                   /\ ~belowMinimumLength(startPoint[1], currentPoint[1])
    IN
    /\ thrown' = FALSE
    /\ Observe("mouseUp",
               IF ~isPanning /\ isDragging /\ moved THEN 1
               ELSE IF creates /\ collectionOfType(currentTool) # "" THEN 1 ELSE 0,
               FALSE)
    /\ IF isPanning
       THEN /\ isPanning' = FALSE
            /\ UNCHANGED <<heapVars, histVars, selVars, isDrawing, isDragging, isSelectingRectangle,
                           startPoint, currentPoint, selectionStart, dragStart, dragOffset>>
       ELSE IF isDragging
       THEN /\ IF moved
               THEN Commit("move elements", store,
                           moveEach(selectedElements, always, byDx, byDy, elems), arrs)
               ELSE UNCHANGED <<heapVars, histVars>>
            /\ isDragging' = FALSE
            /\ dragStart' = None
            /\ dragOffset' = Pt(0, 0)
            /\ UNCHANGED <<selVars, isDrawing, isPanning, isSelectingRectangle, startPoint,
                           currentPoint, selectionStart>>
       ELSE IF isSelectingRectangle
       THEN /\ selectedElements' = IF ~ev.shiftKey THEN rectSelected(rect)
                                   ELSE pushMissing(selectedElements, rectSelected(rect))
            /\ isSelectingRectangle' = FALSE
            /\ selectionStart' = None
            /\ currentPoint' = None
            /\ UNCHANGED <<heapVars, histVars, lockedElements, clipboard, isDrawing, isPanning,
                           isDragging, startPoint, dragStart, dragOffset>>
       ELSE IF ~isDrawing
       THEN UNCHANGED <<heapVars, histVars, selVars, isDrawing, isPanning, isDragging,
                        isSelectingRectangle, startPoint, currentPoint, selectionStart,
                        dragStart, dragOffset>>
       ELSE /\ isDrawing' = FALSE
            /\ IF creates
               THEN /\ createElement(currentTool, startPoint[1], currentPoint[1])
                    /\ startPoint' = None
                    /\ currentPoint' = None
               ELSE UNCHANGED <<heapVars, histVars, startPoint, currentPoint>>
            /\ UNCHANGED <<selVars, isPanning, isDragging, isSelectingRectangle, selectionStart,
                           dragStart, dragOffset>>
    /\ UNCHANGED <<currentTool, spacebarPanning, lastPanPoint, orthogonalMode, viewVars, snapVars>>

(* An Escape handler that clears the selection and leaves the gesture flags
   and the points as they are. *)
KeyEscapeKeepingGesture ==
    /\ selectedElements' = <<>>
    /\ thrown' = FALSE
    /\ Observe("keyEscape", 0, FALSE)
    /\ UNCHANGED <<heapVars, histVars, lockedElements, clipboard, currentTool, modeVars,
                   pointVars, viewVars, snapVars>>

(* handleKeyDown(e), key Escape *)
KeyEscape ==
    /\ selectedElements' = <<>>
    /\ isDrawing' = FALSE
    /\ isDragging' = FALSE
    /\ isSelectingRectangle' = FALSE
    /\ startPoint' = None
    /\ currentPoint' = None
    /\ thrown' = FALSE
    /\ Observe("keyEscape", 0, FALSE)
    /\ UNCHANGED <<heapVars, histVars, lockedElements, clipboard, currentTool, isPanning,
                   spacebarPanning, selectionStart, dragStart, dragOffset, lastPanPoint,
                   orthogonalMode, viewVars, snapVars>>

-----------------------------------------------------------------------------
(* Room detection *)

(* String(n) of an integer, as the sequence of its UTF-16 code units. *)
RECURSIVE Digits(_)
Digits(n) == IF n < 10 THEN <<48 + n>> ELSE Append(Digits(n \div 10), 48 + (n % 10))

NumberString(n) == IF n < 0 THEN <<45>> \o Digits(0 - n) ELSE Digits(n)

(* `${p.x},${p.y}` *)
nodeKey(p) == NumberString(p.x) \o <<44>> \o NumberString(p.y)

(* Number(s) of the string of an integer. *)
RECURSIVE DigitsValue(_)
DigitsValue(s) == IF s = <<>> THEN 0 ELSE 10 * DigitsValue(SubSeq(s, 1, Len(s) - 1)) + (s[Len(s)] - 48)

StringNumber(s) == IF s # <<>> /\ s[1] = 45 THEN 0 - DigitsValue(Tail(s)) ELSE DigitsValue(s)

(* nodeKey.split(',').map(Number), read as {x, y} *)
keyPoint(key) ==
    LET c == CHOOSE i \in 1..Len(key) : key[i] = 44
    IN Pt(StringNumber(SubSeq(key, 1, c - 1)), StringNumber(SubSeq(key, c + 1, Len(key))))

(* a < b for strings: the order Array.prototype.sort() uses without a comparator. *)
RECURSIVE StringLess(_, _)
StringLess(a, b) ==
    IF a = <<>> THEN b # <<>>
    ELSE IF b = <<>> THEN FALSE
    ELSE IF Head(a) # Head(b) THEN Head(a) < Head(b)
    ELSE StringLess(Tail(a), Tail(b))

RECURSIVE insertSorted(_, _)
insertSorted(x, s) ==
    IF s = <<>> THEN <<x>>
    ELSE IF StringLess(x, Head(s)) THEN <<x>> \o s
    ELSE <<Head(s)>> \o insertSorted(x, Tail(s))

(* array.sort() of an array of strings *)
RECURSIVE sortStrings(_)
sortStrings(s) == IF s = <<>> THEN <<>> ELSE insertSorted(s[Len(s)], sortStrings(SubSeq(s, 1, Len(s) - 1)))

(* The graph object: keys in insertion order (the order of Object.keys), adj
   the neighbour array of each key. *)
EmptyGraph == [keys |-> <<>>, adj |-> <<>>]

graphWithKey(g, k) ==
    IF Includes(g.keys, k) THEN g
    ELSE [keys |-> Append(g.keys, k), adj |-> g.adj @@ (k :> <<>>)]

graphWithWall(g, wall) ==
    LET startKey == nodeKey(wall.start)
        endKey == nodeKey(wall.end)
        g1 == graphWithKey(graphWithKey(g, startKey), endKey)
        a1 == [g1.adj EXCEPT ![startKey] = Append(@, endKey)]
    IN [keys |-> g1.keys, adj |-> [a1 EXCEPT ![endKey] = Append(@, startKey)]]

RECURSIVE graphOfWalls(_, _, _)
graphOfWalls(walls, i, g) ==
    IF i > Len(walls) THEN g ELSE graphOfWalls(walls, i + 1, graphWithWall(g, walls[i]))

(* buildWallGraph() over the wall objects walls *)
buildWallGraph(walls) == graphOfWalls(walls, 1, EmptyGraph)

(* dfs that takes the return to any node of the path for a closed cycle and
   walks back over the wall it came by. *)
RECURSIVE dfsRevisit(_, _, _, _)
RECURSIVE dfsRevisitNeighbors(_, _, _, _, _)
dfsRevisit(node, path, start, graph) ==
    IF Includes(path, node)
    THEN IF Len(path) >= 3 THEN <<sortStrings(path)>> ELSE <<>>
    ELSE dfsRevisitNeighbors(graph.adj[node], 1, Append(path, node), start, graph)

dfsRevisitNeighbors(neighbors, i, path, start, graph) ==
    IF i > Len(neighbors) THEN <<>>
    ELSE dfsRevisit(neighbors[i], path, start, graph)
         \o dfsRevisitNeighbors(neighbors, i + 1, path, start, graph)

(* dfs(node, path, start) of findCycles: the cycles it reaches the uniqueness
   check with, in the order it reaches them, each as the array cycle.sort()
   left it. *)
RECURSIVE dfs(_, _, _, _)
RECURSIVE dfsNeighbors(_, _, _, _, _)
dfs(node, path, start, graph) ==
    IF Includes(path, node)
    THEN IF node = start /\ Len(path) >= 3 THEN <<sortStrings(path)>> ELSE <<>>
    ELSE dfsNeighbors(graph.adj[node], 1, Append(path, node), start, graph)

dfsNeighbors(neighbors, i, path, start, graph) ==
    IF i > Len(neighbors) THEN <<>>
    ELSE (IF Len(path) = 1 \/ neighbors[i] # path[Len(path) - 1]
          THEN dfs(neighbors[i], path, start, graph)
          ELSE <<>>)
         \o dfsNeighbors(neighbors, i + 1, path, start, graph)

(* Object.keys(graph).forEach(node => dfs(node, [], node)), from the k-th key on *)
RECURSIVE dfsFromKeys(_, _)
dfsFromKeys(graph, k) ==
    IF k > Len(graph.keys) THEN <<>>
    ELSE dfs(graph.keys[k], <<>>, graph.keys[k], graph) \o dfsFromKeys(graph, k + 1)

(* The uniqueness check: a cycle is pushed unless its key cycle.join('|') is in
   visited, that is unless an equal cycle was pushed before. *)
RECURSIVE pushUnvisited(_)
pushUnvisited(found) ==
    IF found = <<>> THEN <<>>
    ELSE LET cycles == pushUnvisited(SubSeq(found, 1, Len(found) - 1))
             cycle == found[Len(found)]
         IN IF Includes(cycles, cycle) THEN cycles ELSE Append(cycles, cycle)

maxCycles == 20

(* findCycles(graph) *)
findCycles(graph) ==
    LET cycles == pushUnvisited(dfsFromKeys(graph, 1))
    IN SubSeq(cycles, 1, Min2(maxCycles, Len(cycles)))

minRoomArea == 20

(* The room objects detectRooms builds for the cycles from the i-th on, rooms
   those built so far.  The area is the rational <<2 * area, 2 * scale^2>>. *)
RECURSIVE roomsOfCycles(_, _, _)
roomsOfCycles(cycles, i, rooms) ==
    IF i > Len(cycles) THEN rooms
    ELSE LET points == [j \in 1..Len(cycles[i]) |-> keyPoint(cycles[i][j])]
             area2 == polygonArea2(points)
         IN roomsOfCycles(cycles, i + 1,
                IF area2 > 2 * minRoomArea * scale * scale
                THEN Append(rooms, [name |-> <<"Room", Len(rooms) + 1>>,
                                    points |-> points,
                                    center |-> polygonCenter(points),
                                    area |-> <<area2, 2 * scale * scale>>,
                                    type |-> "standard",
                                    height |-> 8,
                                    includeCeiling |-> TRUE])
                ELSE rooms)

(* A detectRooms that pushes the rooms it finds onto the rooms collection. *)
DetectRoomsAccumulating ==
    LET walls == ArrValue(store.walls, elems, arrs)
        rooms == roomsOfCycles(findCycles(buildWallGraph(walls)), 1, <<>>)
        el == elems \o rooms
        ar == Append(arrs, arrs[store.rooms] \o [i \in 1..Len(rooms) |-> Len(elems) + i])
        st == [store EXCEPT !.rooms = Len(ar)]
    IN /\ Commit("detect rooms", st, el, ar)
       /\ thrown' = FALSE
       /\ ObserveRun("detectRooms", 1, FALSE)
       /\ alignInfo' = None
       /\ detectInfo' = Some([walls |-> walls, rooms |-> rooms])
       /\ UNCHANGED <<selVars, currentTool, modeVars, pointVars, viewVars, snapVars>>

(* detectRooms(): the rooms of the cycles of the wall graph replace the rooms
   collection; saveToHistory. *)
DetectRooms ==
    LET walls == ArrValue(store.walls, elems, arrs)
        rooms == roomsOfCycles(findCycles(buildWallGraph(walls)), 1, <<>>)
        el == elems \o rooms
        ar == Append(arrs, [i \in 1..Len(rooms) |-> Len(elems) + i])
        st == [store EXCEPT !.rooms = Len(ar)]
    IN /\ Commit("detect rooms", st, el, ar)
       /\ thrown' = FALSE
       /\ ObserveRun("detectRooms", 1, FALSE)
       /\ alignInfo' = None
       /\ detectInfo' = Some([walls |-> walls, rooms |-> rooms])
       /\ UNCHANGED <<selVars, currentTool, modeVars, pointVars, viewVars, snapVars>>

-----------------------------------------------------------------------------
(* Spec: the history.  The host creates walls, selects and nudges them, and
   undoes and redoes. *)

Segments == { <<Pt(0, 0), Pt(20, 0)>>, <<Pt(10, 30), Pt(40, 30)>> }

WithinCommits == nCommits' <= MaxCommits

DoCreateElement == \E seg \in Segments : CreateElement("wall-interior", seg[1], seg[2]) /\ WithinCommits
DoUndo == nUndoCalls < MaxCommits /\ Undo
DoRedo == Redo
DoSelectAll == SelectAll
DoNudgeSelected == selectedElements # <<>> /\ NudgeSelected(1, 0) /\ WithinCommits

Next ==
    \/ DoCreateElement
    \/ DoUndo
    \/ DoRedo
    \/ DoSelectAll
    \/ DoNudgeSelected

Spec == Init /\ [][Next]_vars

-----------------------------------------------------------------------------
(* SpecSelect: selection against deletion and replacement.  The host creates
   walls; the user selects (click, Ctrl+A), erases, deletes, clears, changes
   tool, and undoes and redoes. *)

Plain == [button |-> 0, ctrlKey |-> FALSE, shiftKey |-> FALSE, clientX |-> 0, clientY |-> 0]
Shift == [button |-> 0, ctrlKey |-> FALSE, shiftKey |-> TRUE, clientX |-> 0, clientY |-> 0]

WithinSelectCommits == nCommits' <= SelectCommits

SelectCreateElement == \E seg \in Segments : CreateElement("wall-interior", seg[1], seg[2]) /\ WithinSelectCommits
SelectUndo == nUndoCalls < SelectCommits /\ Undo
SelectRedo == Redo
SelectMouseDown == \E p \in {Pt(10, 0), Pt(60, 60)} : MouseDown(p, Plain) /\ WithinSelectCommits
SelectMouseUp == MouseUp(Plain) /\ WithinSelectCommits
SelectKeyEscape == KeyEscape
SelectSelectAll == SelectAll
SelectDeleteSelected == DeleteSelected /\ WithinSelectCommits
SelectClearAll == ClearAll /\ WithinSelectCommits
SelectSetTool == \E t \in {"select", "erase"} : SetTool(t)

NextSelect ==
    \/ SelectCreateElement
    \/ SelectUndo
    \/ SelectRedo
    \/ SelectMouseDown
    \/ SelectMouseUp
    \/ SelectKeyEscape
    \/ SelectSelectAll
    \/ SelectDeleteSelected
    \/ SelectClearAll
    \/ SelectSetTool

SpecSelect == Init /\ [][NextSelect]_vars

-----------------------------------------------------------------------------
(* SpecDrag: moving elements.  The host creates walls; the user clicks and
   drags them with the select tool, locks and unlocks, nudges and aligns. *)

WithinDragCommits == nCommits' <= DragCommits

DragCreateElement == \E seg \in Segments : CreateElement("wall-interior", seg[1], seg[2]) /\ WithinDragCommits
DragMouseDown == \E p \in {Pt(10, 0), Pt(20, 30)} : \E ev \in {Plain, Shift} : MouseDown(p, ev) /\ WithinDragCommits
DragMouseMove == \E p \in {Pt(10, 0), Pt(15, 5)} : MouseMove(p, Plain)
DragMouseUp == MouseUp(Plain) /\ WithinDragCommits
DragLockSelected == LockSelected
DragUnlockSelected == UnlockSelected
DragNudgeSelected == selectedElements # <<>> /\ NudgeSelected(1, 0) /\ WithinDragCommits
DragAlignSelected == AlignSelected("left") /\ WithinDragCommits

NextDrag ==
    \/ DragCreateElement
    \/ DragMouseDown
    \/ DragMouseMove
    \/ DragMouseUp
    \/ DragLockSelected
    \/ DragUnlockSelected
    \/ DragNudgeSelected
    \/ DragAlignSelected

SpecDrag == Init /\ [][NextDrag]_vars

-----------------------------------------------------------------------------
(* SpecGrab: the drag gesture by itself.  The host creates walls; the user
   presses on a wall or beside it, moves, and releases. *)

GrabCommits == 2

WithinGrabCommits == nCommits' <= GrabCommits

GrabCreateElement ==
    \E seg \in Segments : CreateElement("wall-interior", seg[1], seg[2]) /\ WithinGrabCommits
GrabMouseDown ==
    \E p \in {Pt(10, 0), Pt(20, 30)} : \E ev \in {Plain, Shift} :
        MouseDown(p, ev) /\ WithinGrabCommits
GrabMouseMove == \E p \in {Pt(10, 0), Pt(15, 5)} : MouseMove(p, Plain)
GrabMouseUp == MouseUp(Plain) /\ WithinGrabCommits

NextGrab ==
    \/ GrabCreateElement
    \/ GrabMouseDown
    \/ GrabMouseMove
    \/ GrabMouseUp

SpecGrab == Init /\ [][NextGrab]_vars

-----------------------------------------------------------------------------
(* SpecAlign: alignment.  The host creates walls; the user selects all, locks
   and unlocks the selection, and aligns it. *)

AlignSegments == << <<Pt(40, 30), Pt(10, 30)>>, <<Pt(0, 0), Pt(20, 0)>>, <<Pt(5, 10), Pt(5, 50)>> >>

WithinAlignCommits == nCommits' <= AlignCommits

(* The walls are drawn in the order of AlignSegments. *)
AlignCreateElement ==
    \E k \in 1..Len(AlignSegments) :
        /\ k = Len(arrs[store.walls]) + 1
        /\ CreateElement("wall-interior", AlignSegments[k][1], AlignSegments[k][2])
        /\ WithinAlignCommits
AlignSelectAll == SelectAll
AlignLockSelected == LockSelected
AlignUnlockSelected == UnlockSelected
AlignAlignSelected == \E a \in AlignmentKinds : AlignExact(a) /\ AlignSelected(a) /\ WithinAlignCommits

NextAlign ==
    \/ AlignCreateElement
    \/ AlignSelectAll
    \/ AlignLockSelected
    \/ AlignUnlockSelected
    \/ AlignAlignSelected

SpecAlign == Init /\ [][NextAlign]_vars

-----------------------------------------------------------------------------
(* SpecRooms: room detection.  The host draws walls along the sides and one
   diagonal of the 200 x 200 square (10 x 10 ft at scale 20), each wall at
   most once, and detects rooms. *)

RoomSegments == { <<Pt(0, 0), Pt(200, 0)>>, <<Pt(200, 0), Pt(200, 200)>>,
                  <<Pt(200, 200), Pt(0, 200)>>, <<Pt(0, 200), Pt(0, 0)>>,
                  <<Pt(200, 0), Pt(0, 200)>> }

WithinRoomCommits == nCommits' <= RoomCommits

RoomsCreateElement ==
    \E seg \in RoomSegments :
        /\ \A i \in 1..Len(arrs[store.walls]) :
              <<elems[arrs[store.walls][i]].start, elems[arrs[store.walls][i]].end>> # seg
        /\ CreateElement("wall-exterior", seg[1], seg[2])
        /\ WithinRoomCommits
RoomsDetectRooms == DetectRooms /\ WithinRoomCommits

NextRooms ==
    \/ RoomsCreateElement
    \/ RoomsDetectRooms

SpecRooms == Init /\ [][NextRooms]_vars

-----------------------------------------------------------------------------
(* SpecLoop: room detection over a four-sided loop.  The host draws the sides
   of the quadrilateral (0,0), (300,0), (300,200), (0,100) and its diagonal
   (0,100)-(300,0), each wall at most once, and detects rooms. *)

LoopCommits == 6

LoopSegments == { <<Pt(0, 0), Pt(300, 0)>>, <<Pt(300, 0), Pt(300, 200)>>,
                  <<Pt(300, 200), Pt(0, 100)>>, <<Pt(0, 100), Pt(0, 0)>>,
                  <<Pt(0, 100), Pt(300, 0)>> }

LoopCreateElement ==
    \E seg \in LoopSegments :
        /\ \A i \in 1..Len(arrs[store.walls]) :
              <<elems[arrs[store.walls][i]].start, elems[arrs[store.walls][i]].end>> # seg
        /\ CreateElement("wall-exterior", seg[1], seg[2])
        /\ nCommits' <= LoopCommits
LoopDetectRooms == DetectRooms /\ nCommits' <= LoopCommits

NextLoop ==
    \/ LoopCreateElement
    \/ LoopDetectRooms

SpecLoop == Init /\ [][NextLoop]_vars

-----------------------------------------------------------------------------
(* SpecCap: the history cap.  The host adds walls one after the other, the
   k-th at (k, 0)-(k + 20, 0), and then undoes repeatedly. *)

CapWall(k) == newElement("wall-interior", Pt(k, 0), Pt(k + 20, 0))

CapCreateElement ==
    /\ nUndoCalls = 0
    /\ nCommits < CapCommits
    /\ CreateElement("wall-interior", Pt(nCommits + 1, 0), Pt(nCommits + 21, 0))

CapUndo == nUndoCalls < maxHistorySize /\ Undo

NextCap ==
    \/ CapCreateElement
    \/ CapUndo

SpecCap == Init /\ [][NextCap]_vars

-----------------------------------------------------------------------------
(* SpecTail: commits after undo, below and at the history cap.  The host adds
   walls one after the other, the k-th at (k, 0)-(k + 20, 0); once the history
   is one entry short of the cap the user also undoes, up to two steps back
   from the newest entry, and redoes. *)

TailCommits == 52

NearCap == nCommits >= maxHistorySize - 1

TailCreateElement ==
    /\ nCommits < TailCommits
    /\ CreateElement("wall-interior", Pt(nCommits + 1, 0), Pt(nCommits + 21, 0))
TailUndo == NearCap /\ historyIndex > Len(history) - 3 /\ Undo
TailRedo == NearCap /\ Redo

NextTail ==
    \/ TailCreateElement
    \/ TailUndo
    \/ TailRedo

SpecTail == Init /\ [][NextTail]_vars

-----------------------------------------------------------------------------
(* SpecView: the viewport.  The host draws a short and a long wall, selects,
   imports a saved floor, and zooms by wheel, buttons and import. *)

ViewSegments == { <<Pt(0, 0), Pt(100, 0)>>, <<Pt(0, 0), Pt(14000, 0)>> }

NoData == [c \in Collections |-> <<>>] @@ [zoom |-> None, panOffset |-> None]

ImportDatas ==
    { [NoData EXCEPT !.walls = <<newElement("wall-interior", Pt(0, 0), Pt(6000, 0))>>],
      [NoData EXCEPT !.zoom = Some(<<8, 1>>)],
      [NoData EXCEPT !.zoom = Some(<<1, 20>>), !.panOffset = Some([x |-> <<10, 1>>, y |-> <<0, 1>>])] }

WithinViewCommits == nCommits' <= ViewCommits
WithinViewSteps == nViewOps' <= ViewSteps

ViewCreateElement == \E seg \in ViewSegments : CreateElement("wall-interior", seg[1], seg[2]) /\ WithinViewCommits
ViewSelectAll == SelectAll
ViewImportData == \E data \in ImportDatas : ImportData(data) /\ WithinViewCommits
ViewWheel == \E deltaY \in {-100, 100} : \E m \in {Pt(0, 0), Pt(400, 300)} : Wheel(deltaY, m.x, m.y) /\ WithinViewSteps
ViewZoomIn == ZoomIn /\ WithinViewSteps
ViewZoomOut == ZoomOut /\ WithinViewSteps
ViewZoomFit == ZoomFit /\ WithinViewSteps
ViewZoomToSelection == ZoomToSelection /\ WithinViewSteps
ViewResetZoom == ResetZoom /\ WithinViewSteps

NextView ==
    \/ ViewCreateElement
    \/ ViewSelectAll
    \/ ViewImportData
    \/ ViewWheel
    \/ ViewZoomIn
    \/ ViewZoomOut
    \/ ViewZoomFit
    \/ ViewZoomToSelection
    \/ ViewResetZoom

SpecView == Init /\ [][NextView]_vars

-----------------------------------------------------------------------------
(* SpecSnap: the snap resolver.  The host draws a wall and a door, zooms in
   and out, and resolves raw points, by the call manager.snapPoint(point) and
   by the method itself. *)

SnapElements == { <<"wall-interior", Pt(20, 0), Pt(60, 0)>>, <<"door-interior", Pt(12, 16), Pt(12, 40)>> }
SnapPoints == { Pt(0, 0), Pt(5, 5), Pt(25, 3), Pt(41, 1), Pt(95, 95) }

WithinSnapCommits == nCommits' <= SnapCommits
WithinSnapSteps == nViewOps' <= SnapSteps

SnapCreateElement == \E e \in SnapElements : CreateElement(e[1], e[2], e[3]) /\ WithinSnapCommits
SnapZoomIn == ZoomIn /\ WithinSnapSteps
SnapZoomOut == ZoomOut /\ WithinSnapSteps
SnapSnapPointCall == \E p \in SnapPoints : SnapPointCall(p)
SnapSnapPointMethod == \E p \in SnapPoints : SnapPointMethod(p)

NextSnap ==
    \/ SnapCreateElement
    \/ SnapZoomIn
    \/ SnapZoomOut
    \/ SnapSnapPointCall
    \/ SnapSnapPointMethod

SpecSnap == Init /\ [][NextSnap]_vars

-----------------------------------------------------------------------------
(* SpecExport: the export / import round trip.  The host creates a wall, a
   door or a measurement, undoes and redoes, and feeds exportData() back to
   importData(). *)

ExportCommits == 3

ExportElements == { <<"wall-interior", Pt(0, 0), Pt(20, 0)>>,
                    <<"door-interior", Pt(5, 0), Pt(10, 0)>>,
                    <<"measure", Pt(0, 10), Pt(20, 10)>> }

WithinExportCommits == nCommits' <= ExportCommits

ExportCreateElement ==
    \E e \in ExportElements : CreateElement(e[1], e[2], e[3]) /\ WithinExportCommits
ExportUndo == nUndoCalls < ExportCommits /\ Undo
ExportRedo == Redo
ExportImportData == ImportExportedData /\ WithinExportCommits

NextExport ==
    \/ ExportCreateElement
    \/ ExportUndo
    \/ ExportRedo
    \/ ExportImportData

SpecExport == Init /\ [][NextExport]_vars

-----------------------------------------------------------------------------
(* SpecDraw: gestures with the drawing tools.  The user picks a tool, presses,
   moves and releases the pointer and presses Escape; the host may remove the
   instance property snapPoint before an event. *)

DrawCommits == 1

DrawTools == {"wall-interior", "text", "select"}
DrawPoints == {Pt(3, 1), Pt(42, 38)}

WithinDrawCommits == nCommits' <= DrawCommits

DrawSetTool == \E tool \in DrawTools : SetTool(tool)
DrawDeleteSnapPoint == DeleteSnapPoint
DrawMouseDown == \E p \in DrawPoints : MouseDown(p, Plain) /\ WithinDrawCommits
DrawMouseMove == \E p \in DrawPoints : \E ev \in {Plain, Shift} : MouseMove(p, ev)
DrawMouseUp == MouseUp(Plain) /\ WithinDrawCommits
DrawKeyEscape == KeyEscape

NextDraw ==
    \/ DrawSetTool
    \/ DrawDeleteSnapPoint
    \/ DrawMouseDown
    \/ DrawMouseMove
    \/ DrawMouseUp
    \/ DrawKeyEscape

SpecDraw == Init /\ [][NextDraw]_vars

-----------------------------------------------------------------------------
(* SpecErase: edits of detected rooms.  The host draws the three walls of a
   triangle, in order, and detects rooms; the user clicks and drags with the
   select and erase tools inside the triangle, deletes the selection, undoes. *)

EraseCommits == 5

TriangleWalls == << <<Pt(140, 0), Pt(140, 140)>>, <<Pt(140, 140), Pt(0, 140)>>,
                    <<Pt(0, 140), Pt(140, 0)>> >>
InsidePoints == {Pt(105, 105), Pt(110, 105)}

WithinEraseCommits == nCommits' <= EraseCommits

EraseCreateElement ==
    LET k == Len(arrs[store.walls]) + 1
    IN /\ nCommits = k - 1
       /\ k <= Len(TriangleWalls)
       /\ CreateElement("wall-exterior", TriangleWalls[k][1], TriangleWalls[k][2])
EraseDetectRooms == nCommits = Len(TriangleWalls) /\ DetectRooms
EraseSetTool == \E tool \in {"select", "erase"} : SetTool(tool)
EraseMouseDown == \E p \in InsidePoints : MouseDown(p, Plain) /\ WithinEraseCommits
EraseMouseMove == \E p \in InsidePoints : MouseMove(p, Plain)
EraseMouseUp == MouseUp(Plain) /\ WithinEraseCommits
EraseDeleteSelected == selectedElements # <<>> /\ DeleteSelected /\ WithinEraseCommits
EraseUndo == nUndoCalls < EraseCommits /\ Undo

NextErase ==
    \/ EraseCreateElement
    \/ EraseDetectRooms
    \/ EraseSetTool
    \/ EraseMouseDown
    \/ EraseMouseMove
    \/ EraseMouseUp
    \/ EraseDeleteSelected
    \/ EraseUndo

SpecErase == Init /\ [][NextErase]_vars

-----------------------------------------------------------------------------
(* SpecRect: rectangle selection over walls and a detected room.  The host
   draws the three walls of the triangle, in order, and detects rooms; the user
   presses on empty canvas outside the triangle, moves, and releases. *)

RectCommits == 4

CornerPoints == {Pt(0, 0), Pt(0, 152), Pt(60, 60)}

RectCreateElement ==
    LET k == Len(arrs[store.walls]) + 1
    IN /\ nCommits = k - 1
       /\ k <= Len(TriangleWalls)
       /\ CreateElement("wall-exterior", TriangleWalls[k][1], TriangleWalls[k][2])
RectDetectRooms == nCommits = Len(TriangleWalls) /\ nCommits < RectCommits /\ DetectRooms
RectMouseDown == \E p \in CornerPoints : \E ev \in {Plain, Shift} : MouseDown(p, ev)
RectMouseMove == \E p \in CornerPoints : MouseMove(p, Plain)
RectMouseUp == \E ev \in {Plain, Shift} : MouseUp(ev)

NextRect ==
    \/ RectCreateElement
    \/ RectDetectRooms
    \/ RectMouseDown
    \/ RectMouseMove
    \/ RectMouseUp

SpecRect == Init /\ [][NextRect]_vars

-----------------------------------------------------------------------------
(* SpecModes: the gesture flags.  The host creates a wall; the user changes
   between the select tool and a wall tool, presses (plainly and with Ctrl),
   moves, releases and presses Escape, in any order. *)

ModesCommits == 2

Ctrl == [button |-> 0, ctrlKey |-> TRUE, shiftKey |-> FALSE, clientX |-> 0, clientY |-> 0]

ModesPoints == {Pt(10, 0), Pt(20, 30)}

ModesCreateElement ==
    /\ nCommits = 0
    /\ CreateElement("wall-interior", Pt(0, 0), Pt(20, 0))
ModesSetTool == \E tool \in {"select", "wall-interior"} : SetTool(tool)
ModesMouseDown ==
    \E p \in ModesPoints : \E ev \in {Plain, Ctrl} : MouseDown(p, ev) /\ nCommits' <= ModesCommits
ModesMouseMove == \E p \in ModesPoints : MouseMove(p, Plain)
ModesMouseUp == MouseUp(Plain) /\ nCommits' <= ModesCommits
ModesKeyEscape == KeyEscape

NextModes ==
    \/ ModesCreateElement
    \/ ModesSetTool
    \/ ModesMouseDown
    \/ ModesMouseMove
    \/ ModesMouseUp
    \/ ModesKeyEscape

SpecModes == Init /\ [][NextModes]_vars

-----------------------------------------------------------------------------
(* SpecNoop: operations that may leave the store as it was.  The host creates
   walls; the user selects all, locks, nudges, aligns, deletes the selection,
   detects rooms and undoes. *)

NoopCommits == 3

WithinNoopCommits == nCommits' <= NoopCommits

NoopCreateElement ==
    \E seg \in Segments : CreateElement("wall-interior", seg[1], seg[2]) /\ WithinNoopCommits
NoopSelectAll == SelectAll
NoopLockSelected == LockSelected
NoopNudgeSelected == NudgeSelected(1, 0) /\ WithinNoopCommits
NoopAlignSelected == AlignSelected("left") /\ WithinNoopCommits
NoopDeleteSelected == DeleteSelected /\ WithinNoopCommits
NoopDetectRooms == DetectRooms /\ WithinNoopCommits
NoopUndo == nUndoCalls < NoopCommits /\ Undo

NextNoop ==
    \/ NoopCreateElement
    \/ NoopSelectAll
    \/ NoopLockSelected
    \/ NoopNudgeSelected
    \/ NoopAlignSelected
    \/ NoopDeleteSelected
    \/ NoopDetectRooms
    \/ NoopUndo

SpecNoop == Init /\ [][NextNoop]_vars

-----------------------------------------------------------------------------
(* SpecImport: importData over stores and viewports that differ from the
   record.  The host creates a wall or a door, zooms in, imports a record
   (complete, without viewport, with zoom 0) and undoes. *)

ImportCommits == 2

ImportElements == { <<"wall-interior", Pt(0, 0), Pt(20, 0)>>,
                    <<"door-interior", Pt(5, 0), Pt(10, 0)>> }

ImportRecords ==
    { [NoData EXCEPT !.walls = <<newElement("wall-exterior", Pt(0, 0), Pt(100, 0))>>,
                     !.zoom = Some(<<2, 1>>),
                     !.panOffset = Some([x |-> <<10, 1>>, y |-> <<5, 1>>])],
      [NoData EXCEPT !.doors = <<newElement("door-exterior", Pt(0, 0), Pt(30, 0))>>],
      [NoData EXCEPT !.zoom = Some(<<0, 1>>),
                     !.panOffset = Some([x |-> <<0, 1>>, y |-> <<0, 1>>])] }

WithinImportCommits == nCommits' <= ImportCommits

ImportCreateElement ==
    \E e \in ImportElements : CreateElement(e[1], e[2], e[3]) /\ WithinImportCommits
ImportZoomIn == nViewOps < 1 /\ ZoomIn
ImportImportData == \E data \in ImportRecords : ImportData(data) /\ WithinImportCommits
ImportUndo == nUndoCalls < ImportCommits /\ Undo

NextImport ==
    \/ ImportCreateElement
    \/ ImportZoomIn
    \/ ImportImportData
    \/ ImportUndo

SpecImport == Init /\ [][NextImport]_vars

-----------------------------------------------------------------------------
(* SpecCalc: calls of the calculator with sheet counts up to MaxSheets, every
   finish level of the table, and rooms with and without counts and detail
   lists. *)

MaxSheets == 48

CalcRooms ==
    { [width |-> w, length |-> l, height |-> 8, doors |-> d, windows |-> n,
       doorDetails |-> dd, windowDetails |-> None] :
         w \in {4, 10}, l \in {6, 12}, d \in {None, Some(0), Some(1)},
         n \in {None, Some(2)},
         dd \in {None, Some(<< [width |-> 0, height |-> 0], [width |-> 4, height |-> 8] >>)} }

CalcJointCompound ==
    \E sheets \in 0..MaxSheets : \E level \in FinishLevels :
        CalculateJointCompound(sheets, level)
CalcWallArea == \E room \in CalcRooms : CalculateWallArea(room)

NextCalc ==
    \/ CalcJointCompound
    \/ CalcWallArea

SpecCalc == Init /\ [][NextCalc]_vars

-----------------------------------------------------------------------------
(* Properties of the history, checked under Spec *)

\* C1: undo inverse law.  Starting from the freshly constructed engine, after
\* N >= 1 element-adding commits and nothing else, N consecutive undo() calls
\* leave the Element Store equal to the initial empty store.
C1_UndoInverse ==
    (onlyAddsThenUndos /\ nCommits >= 1 /\ nUndoCalls = nCommits) => StoreValue = EmptyStoreValue

(* The value recorded in a snapshot. *)
SnapshotValue(snap, el, ar) == StateValue(snap.state, el, ar)

\* C2: no aliasing.  No step changes the state recorded in a snapshot that
\* stays in the history: a change to the live store (a pushed element, an
\* element moved in place) never shows in an already stored snapshot.
C2_SnapshotsNeverChange ==
    [][\A i \in 1..Len(history) : \A j \in 1..Len(history') :
          history'[j] = history[i] =>
             SnapshotValue(history'[j], elems', arrs') = SnapshotValue(history[i], elems, arrs)]_vars

\* C7: redo restores the pre-undo state.  After k effective undos, each
\* effective redo that follows (up to k of them) makes the Element Store equal
\* to the store as it was before the undo it answers; after the k-th the store
\* is the one before the first undo.
C7_RedoRestoresPreUndo ==
    redoExpected # None => StoreValue = redoExpected[1]

(* Two effective undos, then an effective redo that changed the store back. *)
C7_Witness ==
    /\ redoExpected # None
    /\ undoStack # <<>>
    /\ historyIndex >= 1
    /\ StoreValue = redoExpected[1]
    /\ StoreValue # SnapshotValue(history[historyIndex], elems, arrs)

\* C13: in every reachable state, the state right after construction included,
\* the active index designates an existing snapshot and the state of that
\* snapshot is deep-equal to the live store.
C13_ActiveSnapshotIsStore ==
    /\ historyIndex + 1 \in 1..Len(history)
    /\ SnapshotValue(history[historyIndex + 1], elems, arrs) = StoreValue

\* C12: importData(exportData()) leaves every element collection (walls, doors,
\* windows, stairs, rooms, textLabels, measurements) deep-equal to what it was
\* before the call.
C12_ExportImportRoundTrip ==
    [][ImportExportedData => StoreValue' = StoreValue]_vars

(* The round trip has just run over a store of a wall and a door that a redo had
   restored from a snapshot. *)
C12_Witness ==
    /\ historyIndex >= 1
    /\ history[historyIndex + 1].action = "import data"
    /\ Len(history) = historyIndex + 1
    /\ Len(StoreValue.walls) = 1
    /\ Len(StoreValue.doors) = 1
    /\ StoreValue = SnapshotValue(history[historyIndex + 1], elems, arrs)
    /\ \E k \in 1..historyIndex : history[k].state.walls = store.walls

\* C19: undo() at index 0 or on an empty history, and redo() at the last
\* entry, are no-ops: store, history contents and index are unchanged and no
\* error is raised.
C19_UndoRedoAtBoundsNoOp ==
    [][((Undo /\ historyIndex <= 0) \/ (Redo /\ historyIndex >= Len(history) - 1)) =>
          /\ store' = store
          /\ StoreValue' = StoreValue
          /\ HistoryValue' = HistoryValue
          /\ historyIndex' = historyIndex
          /\ ~thrown']_vars

(* Two walls added, then undo called three times: the last call came at
   index 0. *)
C19_Witness ==
    /\ onlyAddsThenUndos
    /\ Len(history) = 2
    /\ nUndoCalls > Len(history)
    /\ historyIndex = 0
    /\ Len(StoreValue.walls) = 1

-----------------------------------------------------------------------------
(* Properties of the selection and of moves *)

\* C4: in every reachable state every member of the Selection is an element
\* currently present in the Element Store.
C4_SelectionInStore ==
    \A i \in 1..Len(selectedElements) : selectedElements[i] \in LiveRefs

\* C5: a locked element keeps its coordinates: no step (nudge, drag commit at
\* pointer-up, align) changes an element that is in the lock list.
C5_LockedNeverMoves ==
    [][\A i \in 1..Len(lockedElements) :
          elems'[lockedElements[i]] = elems[lockedElements[i]]]_vars

IsWall(e) == HasStartEnd(e) /\ e.type \in WallTypes
ElemMinX(e) == getElementBounds(e)[1].minX
AlignedLeft == alignInfo # None /\ alignInfo[1].alignment = "left"

\* C10 as claimed: after alignSelected('left') with >= 2 selected walls every
\* selected wall has the same minimum-x bound, the minimum x over the selection
\* before the alignment.
C10_EverySelectedWallAligned ==
    AlignedLeft =>
        \A i \in 1..Len(selectedElements) :
            IsWall(elems[selectedElements[i]]) =>
                ElemMinX(elems[selectedElements[i]]) = alignInfo[1].bounds.minX

\* C10 amended: after alignSelected('left') with >= 2 selected elements every
\* selected wall that is not locked has the same minimum-x bound, the minimum x
\* over the whole selection (locked elements included) before the alignment.
C10_UnlockedWallsAligned ==
    AlignedLeft =>
        \A i \in 1..Len(selectedElements) :
            (IsWall(elems[selectedElements[i]]) /\ ~isElementLocked(selectedElements[i])) =>
                ElemMinX(elems[selectedElements[i]]) = alignInfo[1].bounds.minX

(* An align-left that moved a wall, over a selection of three walls one of
   which is locked and stays off the common edge. *)
C10_Witness ==
    /\ AlignedLeft
    /\ alignInfo[1].moved >= 1
    /\ Len(selectedElements) >= 3
    /\ \E i \in 1..Len(selectedElements) :
          /\ isElementLocked(selectedElements[i])
          /\ ElemMinX(elems[selectedElements[i]]) # alignInfo[1].bounds.minX
    /\ \E i, j \in 1..Len(selectedElements) :
          /\ i # j
          /\ ~isElementLocked(selectedElements[i])
          /\ ~isElementLocked(selectedElements[j])

-----------------------------------------------------------------------------
(* Properties of room detection, checked under SpecRooms *)

Cross(o, a, b) == (a.x - o.x) * (b.y - o.y) - (a.y - o.y) * (b.x - o.x)

OnSegment(p, a, b) ==
    /\ Cross(a, b, p) = 0
    /\ Min2(a.x, b.x) <= p.x /\ p.x <= Max2(a.x, b.x)
    /\ Min2(a.y, b.y) <= p.y /\ p.y <= Max2(a.y, b.y)

Opposite(d, e) == (d > 0 /\ e < 0) \/ (d < 0 /\ e > 0)

(* The segments v and w have a point in common. *)
SegmentsMeet(v, w) ==
    \/ /\ Opposite(Cross(w.start, w.end, v.start), Cross(w.start, w.end, v.end))
       /\ Opposite(Cross(v.start, v.end, w.start), Cross(v.start, v.end, w.end))
    \/ OnSegment(v.start, w.start, w.end) \/ OnSegment(v.end, w.start, w.end)
    \/ OnSegment(w.start, v.start, v.end) \/ OnSegment(w.end, v.start, v.end)

Ends(w) == {w.start, w.end}

(* Two walls of a simple loop meet in a shared endpoint only, or not at all. *)
MeetOnlyAtSharedEnd(v, w) ==
    LET shared == Ends(v) \cap Ends(w)
    IN CASE Cardinality(shared) = 0 -> ~SegmentsMeet(v, w)
         [] Cardinality(shared) = 1 ->
              /\ \A p \in Ends(v) \ shared : ~OnSegment(p, w.start, w.end)
              /\ \A p \in Ends(w) \ shared : ~OnSegment(p, v.start, v.end)
         [] OTHER -> FALSE

(* The vertices of the walls ws in the order of a walk along the walls, from
   the first wall's start; used has the indices of the walls walked. *)
RECURSIVE LoopWalk(_, _, _, _)
LoopWalk(ws, at, used, acc) ==
    LET next == {i \in (1..Len(ws)) \ used : at \in Ends(ws[i])}
    IN IF next = {} THEN acc
       ELSE LET i == CHOOSE i \in next : TRUE
                to == IF ws[i].start = at THEN ws[i].end ELSE ws[i].start
            IN LoopWalk(ws, to, used \cup {i}, Append(acc, at))

LoopOrder(ws) == LoopWalk(ws, ws[1].start, {}, <<>>)

(* The walls ws are exactly one closed simple loop. *)
IsSimpleLoop(ws) ==
    /\ Len(ws) >= 3
    /\ \A i \in 1..Len(ws) : ws[i].start # ws[i].end
    /\ \A p \in UNION {Ends(ws[i]) : i \in 1..Len(ws)} :
          Cardinality({i \in 1..Len(ws) : p \in Ends(ws[i])}) = 2
    /\ \A i, j \in 1..Len(ws) : i # j => MeetOnlyAtSharedEnd(ws[i], ws[j])
    /\ Len(LoopOrder(ws)) = Len(ws)

(* Twice the area the loop ws encloses. *)
LoopArea2(ws) == polygonArea2(LoopOrder(ws))

\* C3: when the walls are exactly one closed simple loop enclosing area A,
\* detectRooms returns exactly one room and its area is A / scale^2 (the
\* 200 x 200 square at scale 20: one room of area 100).
C3_OneRoomPerSimpleLoop ==
    (detectInfo # None /\ IsSimpleLoop(detectInfo[1].walls)) =>
        /\ Len(detectInfo[1].rooms) = 1
        /\ detectInfo[1].rooms[1].area[1] * (2 * scale * scale)
              = LoopArea2(detectInfo[1].walls) * detectInfo[1].rooms[1].area[2]

(* The undirected edges of the walls ws between distinct points. *)
WallEdges(ws) == {Ends(ws[i]) : i \in {j \in 1..Len(ws) : ws[j].start # ws[j].end}}

(* The wall graph has a closed loop: some walls in which every point met is
   met by at least two of them. *)
HasLoop(ws) ==
    \E S \in SUBSET WallEdges(ws) :
        /\ S # {}
        /\ \A edge \in S : \A p \in edge : Cardinality({f \in S : p \in f}) >= 2

\* C11: when the wall graph has no closed loop (no walls, one open wall, open
\* chains), detectRooms returns no room, leaves the rooms collection of the
\* store empty and raises no error.
C11_NoLoopNoRooms ==
    (detectInfo # None /\ ~HasLoop(detectInfo[1].walls)) =>
        /\ detectInfo[1].rooms = <<>>
        /\ StoreValue.rooms = <<>>
        /\ ~thrown

(* detectRooms over an open chain of three walls with two corners. *)
C11_Witness ==
    /\ detectInfo # None
    /\ Len(detectInfo[1].walls) = 3
    /\ ~HasLoop(detectInfo[1].walls)
    /\ Cardinality(UNION WallEdges(detectInfo[1].walls)) = 4
    /\ StoreValue.rooms = <<>>

\* C27: detectRooms replaces the rooms collection, from the walls alone: no
\* room object of the collection before the call is in it afterwards, and a
\* call that follows another with the walls unchanged leaves the same rooms
\* (count, names, points, areas) and not the old ones beside the new.
C27_DetectRoomsReplaces ==
    [][RoomsDetectRooms
          => /\ SeqToSet(arrs'[store'.rooms]) \cap SeqToSet(arrs[store.rooms]) = {}
             /\ (detectInfo # None /\ detectInfo[1].walls = StoreValue.walls)
                   => /\ StoreValue'.rooms = detectInfo[1].rooms
                      /\ StoreValue'.rooms = StoreValue.rooms]_vars

(* detectRooms ran twice in a row over walls that close a room. *)
C27_Witness ==
    /\ detectInfo # None
    /\ Len(detectInfo[1].rooms) >= 1
    /\ StoreValue.rooms = detectInfo[1].rooms
    /\ historyIndex >= 1
    /\ history[historyIndex].action = "detect rooms"
    /\ history[historyIndex + 1].action = "detect rooms"

\* C28: every room detectRooms produces lists its vertices in loop order:
\* each two consecutive points, and the last with the first, are the two
\* endpoints of a wall.
C28_RoomPointsInLoopOrder ==
    detectInfo # None =>
        \A k \in 1..Len(detectInfo[1].rooms) :
            LET points == detectInfo[1].rooms[k].points
            IN \A j \in 1..Len(points) :
                  {points[j], points[(j % Len(points)) + 1]} \in WallEdges(detectInfo[1].walls)

-----------------------------------------------------------------------------
(* Properties of the history cap, checked under SpecCap *)

(* The store after the k-th of the consecutive add-wall commits. *)
CommittedState(k) == [EmptyStoreValue EXCEPT !.walls = [i \in 1..k |-> CapWall(i)]]

\* C6: after n consecutive commits the history holds min(n, 50) snapshots and
\* never more than 50; once undo has been repeated as far as it goes, the store
\* is the (n - 49)th committed state when n > 50 (the 1st when n <= 50).
C6_HistoryCap ==
    /\ Len(history) <= maxHistorySize
    /\ Len(history) = Min2(nCommits, maxHistorySize)
    /\ (nCommits >= 1 /\ nUndoCalls >= Len(history) - 1) =>
          /\ historyIndex = 0
          /\ StoreValue = CommittedState(Max2(1, nCommits - (maxHistorySize - 1)))

(* Sixty or more commits, undone as far as undo goes and once more. *)
C6_Witness ==
    /\ nCommits >= maxHistorySize + 10
    /\ nUndoCalls = maxHistorySize
    /\ Len(history) = maxHistorySize
    /\ StoreValue = CommittedState(nCommits - (maxHistorySize - 1))
    /\ StoreValue # CommittedState(1)

-----------------------------------------------------------------------------
(* Properties of the viewport, checked under SpecView *)

\* C8: in every reachable state the zoom lies in [0.1, 5], whatever sequence of
\* wheel zoom, zoomIn, zoomOut, zoomFit, zoomToSelection, resetZoom and
\* importData produced it.
C8_ZoomInRange == ~RatLess(zoom, minZoom) /\ ~RatLess(maxZoom, zoom)

-----------------------------------------------------------------------------
(* Properties of snapping, checked under SpecSnap *)

(* The endpoint e lies within the snap radius 20 / zoom of the point the
   resolver was called with. *)
WithinSnapRadius(e) ==
    DistSq(snapResult[1].point, e) * snapResult[1].zoom[1] * snapResult[1].zoom[1]
        <= snapRadiusPixels * snapRadiusPixels * snapResult[1].zoom[2] * snapResult[1].zoom[2]

SnapEndpoints == SeqToSet(snapResult[1].endpoints)

\* C9: when an existing wall, door or window endpoint lies within the snap
\* radius 20 / zoom of the raw point p, the snap resolver returns exactly the
\* coordinates of the nearest such endpoint, with kind = endpoint, whatever
\* the midpoints and the grid.
C9_SnapsToEndpointWithinRadius ==
    (snapResult # None /\ \E e \in SnapEndpoints : WithinSnapRadius(e)) =>
        /\ ~snapResult[1].threw
        /\ snapResult[1].kind = "endpoint"
        /\ \E e \in SnapEndpoints :
              /\ snapResult[1].result = Some([x |-> <<e.x, 1>>, y |-> <<e.y, 1>>])
              /\ \A f \in SnapEndpoints : DistSq(snapResult[1].point, e) <= DistSq(snapResult[1].point, f)

-----------------------------------------------------------------------------
(* Properties of the gestures, checked under SpecDraw *)

\* C14: no sequence of user events drives the engine into a thrown-exception
\* state: every handler completes, and pointer-down and pointer-move with a
\* drawing tool resolve a snap point.
C14_NoHandlerThrows == ~thrown

\* C16: Escape during a draw or a drag ends the gesture without a history
\* commit: the store and the history (contents and index) are as they were
\* before the gesture began, and a later pointer-up creates or moves nothing.
C16_CancelLeavesStoreAndHistory ==
    (gesture # None /\ gesture[1].cancelled /\ gesture[1].kind \in {"draw", "drag"}) =>
        /\ ~isDrawing /\ ~isDragging
        /\ StoreValue = gesture[1].store
        /\ HistoryValue = gesture[1].history
        /\ historyIndex = gesture[1].index

(* A draw from one point to another 5 or more units away was cancelled, over
   a store that holds an element, and the pointer was released afterwards. *)
C16_Witness ==
    /\ gesture # None
    /\ gesture[1].cancelled /\ gesture[1].kind = "draw"
    /\ gesture[1].released
    /\ gesture[1].start # None /\ gesture[1].current # None
    /\ DistSq(gesture[1].start[1], gesture[1].current[1]) >= 25
    /\ StoreValue # EmptyStoreValue

\* C15: createElement with an unrecognized type tag, as reached by finishing a
\* draw gesture with the tool 'text', ends in a thrown error (a hard contract
\* violation), not in a silent return.
C15_UnknownTypeThrows ==
    [][(/\ gestureKind = "draw"
        /\ startPoint # None /\ currentPoint # None
        /\ ~belowMinimumLength(startPoint[1], currentPoint[1])
        /\ collectionOfType(currentTool) = ""
        /\ MouseUp(Plain)) => thrown']_vars

(* The drawn segments of the store: walls, doors, windows, stairs, measurements. *)
DrawnElements ==
    {elems[r] : r \in {q \in LiveRefs : HasStartEnd(elems[q])}}

\* C18: releasing the pointer on a draw gesture whose start and end points
\* are less than 5 world units apart creates no element, commits no snapshot
\* and leaves the store unchanged; no element drawn is shorter than 5 units.
C18_ShortDrawCreatesNothing ==
    /\ (/\ gesture # None /\ gesture[1].released /\ ~gesture[1].cancelled
        /\ gesture[1].kind = "draw"
        /\ gesture[1].start # None /\ gesture[1].current # None
        /\ belowMinimumLength(gesture[1].start[1], gesture[1].current[1]))
       => /\ StoreValue = gesture[1].store
          /\ HistoryValue = gesture[1].history
          /\ historyIndex = gesture[1].index
    /\ \A e \in DrawnElements : DistSq(e.start, e.end) >= 25

(* A wall was drawn, and then a wall gesture pressed and released on one spot. *)
C18_Witness ==
    /\ gesture # None /\ gesture[1].released /\ ~gesture[1].cancelled
    /\ gesture[1].kind = "draw"
    /\ gesture[1].start # None /\ gesture[1].current # None
    /\ belowMinimumLength(gesture[1].start[1], gesture[1].current[1])
    /\ isWallTool(currentTool)
    /\ Len(StoreValue.walls) = 1
    /\ ~isDrawing

-----------------------------------------------------------------------------
(* Properties of the rooms under edits, checked under SpecErase *)

\* C17: the Room collection changes only wholesale, by detectRooms or by a
\* replacement of the whole store (undo, redo, importData, clearAll): no other
\* step (erase tool, deleteSelected, paste, drag) adds, removes or moves a Room.
C17_RoomsChangeOnlyWholesale ==
    [][StoreValue.rooms' # StoreValue.rooms =>
          (DetectRooms \/ Undo \/ Redo \/ ClearAll \/ ImportExportedData)]_vars

-----------------------------------------------------------------------------
(* Properties of importData, checked under SpecImport *)

(* importData(data) replaced the collections by those of data (empty where
   data has none) and committed one snapshot 'import data' of that store,
   after the snapshots up to the index it ran at. *)
ImportedAndCommitted(data) ==
    /\ StoreValue' = [c \in Collections |-> data[c]]
    /\ nCommits' = nCommits + 1
    /\ historyIndex' = historyIndex + 1
    /\ Len(history') = historyIndex' + 1
    /\ history'[historyIndex' + 1].action = "import data"
    /\ SnapshotValue(history'[historyIndex' + 1], elems', arrs') = StoreValue'
    /\ SubSeq(HistoryValue', 1, historyIndex + 1) = SubSeq(HistoryValue, 1, historyIndex + 1)

\* C20 as claimed: importData(record) replaces every collection by the
\* record's (empty when omitted) and zoom and panOffset by the record's, then
\* commits exactly one snapshot 'import data' whose state is the imported store.
C20_ImportTakesRecordViewport ==
    [][\A data \in ImportRecords : ImportData(data) =>
          /\ ImportedAndCommitted(data)
          /\ Some(zoom') = data.zoom
          /\ Some(panOffset') = data.panOffset]_vars

\* C20, amended: importData(record) replaces every collection by the record's
\* (empty when omitted), replaces zoom by the record's when the record has a
\* non-zero zoom and panOffset when the record has one, leaving each as it
\* was otherwise, then commits exactly one snapshot 'import data' whose state
\* is the imported store.
C20_ImportTakesViewportWhenPresent ==
    [][\A data \in ImportRecords : ImportData(data) =>
          /\ ImportedAndCommitted(data)
          /\ zoom' = IF data.zoom # None /\ data.zoom[1][1] # 0 THEN data.zoom[1] ELSE zoom
          /\ panOffset' = IF data.panOffset # None THEN data.panOffset[1] ELSE panOffset]_vars

(* The complete record was imported over a store that held a door. *)
C20_Witness ==
    /\ historyIndex >= 1
    /\ history[historyIndex + 1].action = "import data"
    /\ history[historyIndex].action = "add door"
    /\ Len(StoreValue.walls) = 1 /\ StoreValue.doors = <<>>
    /\ zoom = <<2, 1>>
    /\ panOffset = [x |-> <<10, 1>>, y |-> <<5, 1>>]

-----------------------------------------------------------------------------
(* Properties of the calculator, checked under SpecCalc *)

(* The multipliers of the finish levels as the claim lists them, in quarters. *)
ListedMultiplier(level) ==
    CASE level = "level0" -> 0 [] level = "level1" -> 2 [] level = "level2" -> 3
      [] level = "level3" -> 4 [] level = "level4" -> 5 [] level = "level5" -> 6

\* C21: calculateJointCompound(sheets, finishLevel) = ceil((sheets / 8) * m),
\* m the listed multiplier of the level (level0: 0 .. level5: 1.5), for every
\* listed level and every non-negative sheet count.
C21_JointCompoundByLevel ==
    (calc # None /\ calc[1].op = "calculateJointCompound") =>
        calc[1].result = Ceil(calc[1].sheets * ListedMultiplier(calc[1].finishLevel), 32)

\* C22: for a room with width, length, height and optional door and window
\* counts (0 when absent) and no detail lists, calculateWallArea returns
\* perimeter = 2 * (width + length), gross = perimeter * height,
\* openings = 21 * doors + 12 * windows and net = gross - openings.
C22_WallAreaByCounts ==
    (/\ calc # None /\ calc[1].op = "calculateWallArea"
     /\ calc[1].room.doorDetails = None /\ calc[1].room.windowDetails = None) =>
        LET room == calc[1].room
            doors == IF room.doors = None THEN 0 ELSE room.doors[1]
            windows == IF room.windows = None THEN 0 ELSE room.windows[1]
            r == calc[1].result
        IN /\ r.perimeter = 2 * (room.width + room.length)
           /\ r.gross = r.perimeter * room.height
           /\ r.openings = 21 * doors + 12 * windows
           /\ r.net = r.gross - r.openings

(* The 10 x 12 x 8 room with one door and two windows: 44, 352, 45, 307. *)
C22_Witness ==
    /\ calc # None /\ calc[1].op = "calculateWallArea"
    /\ calc[1].room.doorDetails = None
    /\ calc[1].room.doors = Some(1) /\ calc[1].room.windows = Some(2)
    /\ calc[1].result = [gross |-> 352, openings |-> 45, net |-> 307, perimeter |-> 44]

-----------------------------------------------------------------------------
(* Properties of the drag gesture, checked under SpecGrab *)

(* The value of an element with the offset added to each of its coordinates. *)
Shifted(v, off) ==
    [f \in DOMAIN v |->
        IF f \in {"start", "end"} THEN [x |-> v[f].x + off.x, y |-> v[f].y + off.y]
        ELSE IF f = "points"
        THEN [i \in 1..Len(v[f]) |-> [x |-> v[f][i].x + off.x, y |-> v[f][i].y + off.y]]
        ELSE v[f]]

(* The store with the offset added to the selected elements. *)
StoreWithSelectionShifted(off) ==
    [c \in Collections |->
        [i \in 1..Len(arrs[store[c]]) |->
            IF Includes(selectedElements, arrs[store[c]][i])
            THEN Shifted(elems[arrs[store[c]][i]], off)
            ELSE elems[arrs[store[c]][i]]]]

\* C23: during a drag (pointer-down on a hit element) a pointer move changes
\* neither the Element Store nor the history; at pointer-up a non-zero drag
\* offset is added to the coordinates of the selected elements and exactly one
\* snapshot ('move elements', equal to the store) is committed, and a zero
\* offset changes nothing and commits nothing.
C23_DragProtocol ==
    [][/\ (isDragging /\ GrabMouseMove)
            => /\ StoreValue' = StoreValue
               /\ HistoryValue' = HistoryValue
               /\ historyIndex' = historyIndex
               /\ selectedElements' = selectedElements
       /\ (isDragging /\ ~isPanning /\ dragOffset = Pt(0, 0) /\ MouseUp(Plain))
            => /\ StoreValue' = StoreValue
               /\ HistoryValue' = HistoryValue
               /\ historyIndex' = historyIndex
       /\ (isDragging /\ ~isPanning /\ dragOffset # Pt(0, 0) /\ MouseUp(Plain))
            => /\ StoreValue' = StoreWithSelectionShifted(dragOffset)
               /\ Len(history') = Min2(historyIndex + 2, maxHistorySize)
               /\ historyIndex' = Len(history') - 1
               /\ HistoryValue'[Len(history')] =
                      [action |-> "move elements", state |-> StoreValue']
               /\ ~isDragging'
               /\ dragOffset' = Pt(0, 0)]_vars

(* A drag with a non-zero offset was released: the dragged wall moved and the
   move is the last commit. *)
C23_Witness ==
    /\ gesture # None /\ gesture[1].released /\ ~gesture[1].cancelled
    /\ gesture[1].kind = "drag"
    /\ gesture[1].current # None /\ gesture[1].current[1] # Pt(0, 0)
    /\ selectedElements # <<>>
    /\ StoreValue # gesture[1].store
    /\ historyIndex = gesture[1].index + 1
    /\ history[historyIndex + 1].action = "move elements"

-----------------------------------------------------------------------------
(* Properties of the commit, checked under SpecTail *)

\* C24: immediately after any commit the active index is history length - 1:
\* the snapshots that lay beyond the index before the commit are discarded
\* (the history holds the entries up to the old index and the new one, less
\* the oldest when that exceeds the cap), and redo() changes nothing in a
\* state whose index is at the end of the history.
C24_CommitDiscardsRedoBranch ==
    [][/\ (nCommits' = nCommits + 1)
            => /\ historyIndex' = Len(history') - 1
               /\ Len(history') = Min2(historyIndex + 2, maxHistorySize)
               /\ HistoryValue'[Len(history')].state = StoreValue'
               /\ \A k \in 1..(Len(history') - 1) :
                      history'[k] = history[k + (historyIndex + 2 - Len(history'))]
       /\ (historyIndex = Len(history) - 1 /\ Redo)
            => UNCHANGED <<heapVars, histVars>>]_vars

(* The history is full and has lost its oldest entry, a wall that was undone
   is gone with its redo branch, and the index is at the newest entry. *)
C24_Witness ==
    /\ Len(history) = maxHistorySize
    /\ historyIndex = Len(history) - 1
    /\ Len(HistoryValue[1].state.walls) >= 2
    /\ Len(StoreValue.walls) < nCommits
    /\ HistoryValue[Len(history)].state = StoreValue

-----------------------------------------------------------------------------
(* The resolution order of the snap resolver, checked under SpecSnap.
   Candidates are held doubled, as the midpoints are. *)

StoreEndpoints ==
    UNION {{Doubled(e.start), Doubled(e.end)} :
              e \in SeqToSet(StoreValue.walls \o StoreValue.doors \o StoreValue.windows)}

StoreMidpoints ==
    {Pt(w.start.x + w.end.x, w.start.y + w.end.y) : w \in SeqToSet(StoreValue.walls)}

(* The candidates of cs closer to p than the radius 20 / zoom and nearest to p. *)
NearestInRadius(p, cs) ==
    {c \in cs :
        /\ DistSq(Doubled(p), c) * zoom[1] * zoom[1]
              < 4 * snapRadiusPixels * snapRadiusPixels * zoom[2] * zoom[2]
        /\ \A d \in cs : DistSq(Doubled(p), c) <= DistSq(Doubled(p), d)}

(* The grid intersections nearest to p, on the grid of pitch scale * gridSize. *)
NearestGridPoints(p) ==
    LET size == scale * gridSize
        near(a) == {k * size : k \in {j \in 0..(a \div size + 1) : 2 * Abs(a - j * size) <= size}}
    IN {Pt(gx, gy) : gx \in near(p.x), gy \in near(p.y)}

(* What the resolver is to return for the point it was called with. *)
ResolvedInOrder ==
    LET r == snapResult'[1]
    IN /\ ~r.threw
       /\ IF NearestInRadius(r.point, StoreEndpoints) # {}
          THEN /\ r.kind = "endpoint"
               /\ \E c \in NearestInRadius(r.point, StoreEndpoints) : r.result = Some(Halved(c))
          ELSE IF NearestInRadius(r.point, StoreMidpoints) # {}
          THEN /\ r.kind = "midpoint"
               /\ \E c \in NearestInRadius(r.point, StoreMidpoints) : r.result = Some(Halved(c))
          ELSE IF snapToGrid
          THEN /\ r.kind = "grid"
               /\ \E g \in NearestGridPoints(r.point) : r.result = Some(Halved(Doubled(g)))
          ELSE /\ r.kind = ""
               /\ r.result = Some(Halved(Doubled(r.point)))

\* C25: the snap resolver, called with a raw point, returns the nearest wall,
\* door or window endpoint within the radius if there is one; otherwise the
\* nearest wall midpoint within the radius; otherwise, with grid snap enabled,
\* the nearest grid intersection at any distance; otherwise the point itself
\* with no kind.
C25_SnapResolutionOrder == [][SnapSnapPointCall => ResolvedInOrder]_vars

-----------------------------------------------------------------------------
(* Properties of the rectangle selection, checked under SpecRect *)

(* The elements of the store with an endpoint or a vertex inside the box
   spanned by the two corners, bounds included. *)
ElementsInBox(a, b) ==
    {r \in LiveRefs :
        \E q \in SeqToSet(ElemPoints(elems[r])) :
            /\ Min2(a.x, b.x) <= q.x /\ q.x <= Max2(a.x, b.x)
            /\ Min2(a.y, b.y) <= q.y /\ q.y <= Max2(a.y, b.y)}

\* C26: completing a selection rectangle without shift makes the selection
\* exactly the set of store elements, linear elements and rooms alike, that
\* have an endpoint or a vertex inside the box spanned by the two corners,
\* bounds included.
C26_RectangleSelectsAllInside ==
    [][(/\ isSelectingRectangle /\ ~isPanning /\ ~isDragging
        /\ MouseUp(Plain))
          => SeqToSet(selectedElements') = ElementsInBox(selectionStart[1], currentPoint[1])]_vars

-----------------------------------------------------------------------------
(* Properties of the gesture flags, checked under SpecModes *)

GestureFlags == <<isDrawing, isDragging, isSelectingRectangle, isPanning>>

\* C29: in every state reachable by pointer-down, pointer-move, pointer-up,
\* key and tool-change events, at most one of isDrawing, isDragging,
\* isSelectingRectangle and isPanning is true.
C29_GestureModesExclusive ==
    Cardinality({k \in 1..Len(GestureFlags) : GestureFlags[k]}) <= 1

-----------------------------------------------------------------------------
(* Properties of the committing operations, checked under SpecNoop *)

\* C30: a snapshot is committed only when the Element Store changed: when the
\* store after deleteSelected, nudgeSelected, alignSelected or detectRooms is
\* deep-equal to the store before it, the history contents and the index are
\* unchanged (and with them the redo branch).
C30_CommitOnlyOnChange ==
    [][(/\ \/ NoopDeleteSelected
           \/ NoopNudgeSelected
           \/ NoopAlignSelected
           \/ NoopDetectRooms
        /\ StoreValue' = StoreValue)
          => /\ HistoryValue' = HistoryValue
             /\ historyIndex' = historyIndex]_vars

====
